---- MODULE Spec2Model ----
(***************************************************************************)
(* Generation engine of companion-keeper (runGeneration / runGenerationLlm *)
(* in the desktop main process): checkpointed, resumable, concurrency-     *)
(* bounded LLM orchestration.                                              *)
(*                                                                         *)
(* The model follows the JavaScript execution model: every action is one   *)
(* continuation of the single-threaded event loop, from the event that     *)
(* resumes a coroutine up to its next `await`.  Continuations of the main  *)
(* coroutine that follow a resolved promise without waiting for an         *)
(* external event are "urgent": no external event (LLM response, disk      *)
(* completion, cancel) can run before them.                                *)
(***************************************************************************)
EXTENDS Integers, Sequences, FiniteSets, TLC

(* ------------------------------ bounds -------------------------------- *)

\* conversation files in the extracted model directory
NumConv == 2
\* engine runs started in one behaviour
MaxRuns == 2
\* LLM calls that answer with an error or with text holding no JSON
MaxFaults == 1
\* failing disk operations (stat, writeFile)
MaxDiskFaults == 1
\* LLM calls made through the client while one signal is in use
NumCalls == 2
\* versions of the input file that have a cache root
NumSources == 2
\* conversations in the input file of the extraction cache
NumSourceConv == 3

\* objects in one streamed JSON array
MaxObjects == 2

\* entries in one ZIP archive
MaxEntries == 2

\* chunks in the conversations.json entry of a ZIP archive
MaxReads == 2

\* messages of one model in one conversation
MaxCount == 2

\* conversations in one input of the extraction
MaxConversations == 3

\* nodes in the mapping of one conversation
NumNodes == 3

\* scored conversation files of one model directory
NumFiles == 3

\* memories of the card in an append-memories run
MaxExisting == 1

\* rows of the memories payload
MaxRows == 2

\* progress events of the engine in one job
MaxProgress == 2

\* cancel requests for one job
MaxCancels == 2

(* ----------------------------- constants ------------------------------ *)

\* maxAttempts of fetchJsonWithRetry, passed as 6 by every caller
MaxAttempts == 6

Conv == 1..NumConv

(* --------------------------- small helpers ---------------------------- *)

EmptyMap == << >>

Put(m, k, v) == [x \in (DOMAIN m) \cup {k} |-> IF x = k THEN v ELSE m[x]]

Range(s) == {s[i] : i \in DOMAIN s}

Min(a, b) == IF a < b THEN a ELSE b

Max(a, b) == IF a > b THEN a ELSE b

RECURSIVE Filter(_, _)
\* Array.prototype.filter with membership in `keep` as the predicate
Filter(s, keep) ==
    IF s = << >> THEN << >>
    ELSE IF Head(s) \in keep THEN << Head(s) >> \o Filter(Tail(s), keep)
         ELSE Filter(Tail(s), keep)

(* ------------------------- requests and files ------------------------- *)

\* The run-shaping parameters of a GenerateRequest (companion name, seed,
\* primary model, budgets) are one number `params`; two requests have equal
\* run-shaping parameters iff their `params` agree.  The requests the user
\* submits: full generation with either parameter set, a forced rerun, and
\* append-memories with and without existing memories; maxParallelCalls
\* takes a value below, inside and above the clamped range.
Requests ==
    {[params |-> 1, append |-> FALSE, force |-> FALSE,
      maxParallelCalls |-> 2, existing |-> 0],
     [params |-> 2, append |-> FALSE, force |-> FALSE,
      maxParallelCalls |-> 20, existing |-> 0],
     [params |-> 1, append |-> FALSE, force |-> TRUE,
      maxParallelCalls |-> 0, existing |-> 0],
     [params |-> 1, append |-> TRUE, force |-> FALSE,
      maxParallelCalls |-> 0, existing |-> 1],
     [params |-> 2, append |-> TRUE, force |-> FALSE,
      maxParallelCalls |-> 2, existing |-> 0]}

\* sha1 over the signature payload: injective on (params, appendMemories);
\* 0 stands for the empty string read from a file without a signature.
resumeCheckpointSignature(req) == 2 * req.params + (IF req.append THEN 1 ELSE 0)

\* selectConversationFiles is a function of the run-shaping parameters and of
\* the files present: parameter set 1 selects every file (highest score
\* first, here the highest number), parameter set 2 a smaller sample in
\* another order.
selectConversationFiles(p) ==
    IF p = 1 THEN [i \in 1..NumConv |-> NumConv + 1 - i]
    ELSE [i \in 1..(NumConv - 1) |-> i]

\* the checkpoint file generation_resume.json
AbsentFile ==
    [state |-> "absent", signature |-> 0, obs |-> EmptyMap,
     cands |-> EmptyMap, processed |-> << >>]

PartialFile == [AbsentFile EXCEPT !.state = "partial"]

\* a checkpoint left by an earlier version of the program: no signature, an
\* observation that is an empty object, and candidates of a file that is not
\* listed as processed
LegacyFile ==
    [state |-> "ok", signature |-> 0, obs |-> Put(EmptyMap, 1, "empty"),
     cands |-> Put(EmptyMap, 2, << 2 >>), processed |-> << >>]

\* Observation payloads are "empty" for {} , "idonly" for
\* {conversation_id} and "full" for {conversation_id, ...fields}.

(* ----------------------- checkpoint normalisation --------------------- *)

fallbackCheckpoint(signature) ==
    [signature |-> signature, obs |-> EmptyMap, cands |-> EmptyMap,
     processed |-> << >>]

\* sanitizeMemoryCandidateRows keeps the rows that carry content; every row
\* the engine stores carries content, so the list is kept as it is.
sanitizeMemoryCandidateRows(rows) == rows

NonEmptyCands(cands) ==
    [k \in {x \in DOMAIN cands : Len(sanitizeMemoryCandidateRows(cands[x])) > 0}
        |-> sanitizeMemoryCandidateRows(cands[k])]

hasLegacyData(root) ==
    \/ DOMAIN root.obs # {}
    \/ DOMAIN root.cands # {}
    \/ Len(root.processed) > 0

normalizeResumeCheckpoint(value, signature) ==
    IF value.state # "ok" THEN fallbackCheckpoint(signature)
    ELSE IF value.signature # signature /\ ~hasLegacyData(value)
         THEN fallbackCheckpoint(signature)
    ELSE [signature |-> signature,
          obs |-> value.obs,
          cands |-> NonEmptyCands(value.cands),
          processed |-> value.processed]

\* a reader that takes every file for a missing one
readResumeCheckpointAsMissing(file, signature) ==
    normalizeResumeCheckpoint(AbsentFile, signature)

\* readResumeCheckpoint: a missing file and a file that does not parse both
\* end in the catch branch
readResumeCheckpoint(file, signature) ==
    normalizeResumeCheckpoint(
        IF file.state = "ok" THEN file ELSE AbsentFile, signature)

\* loadManifest: a missing or unparsable scan manifest is an empty one
readManifest(file) == IF file.state = "ok" THEN file.scanned ELSE {}

(* ------------------------------- state -------------------------------- *)

VARIABLES
    disk,                 \* files of the run directory: checkpoint, scan manifest
    pc,                   \* position of the main coroutine (runGeneration)
    request,              \* the GenerateRequest of the current run
    chunksForPersona,     \* selected persona packets, in selection order
    chunksForMemory,      \* selected memory packets, in selection order
    personaChunksPending,
    memoryChunksPending,
    personaObservationByConversation,
    memoryCandidatesBySourceFile,
    processedMemoryFileSet,
    manifest,             \* scannedFiles of the in-memory ScanManifest
    poolStage,            \* stage whose runners were spawned last
    cursor,               \* runWithConcurrency: indices already claimed
    runners,              \* runWithConcurrency: one record per runner
    aborted,              \* input.signal.aborted
    checkpointWriteQueue, \* chained checkpoint writes not yet settled
    manifestWriteQueue,   \* chained scan-manifest writes not yet settled
    errors,               \* errors[]
    llmLog,               \* beginCall / completeCall / failCall per call label
    llmResponse,          \* how the LLM answered each call of this run
    loaded,               \* the checkpoint file as it was when the run read it
    personaObservations,  \* input of persona synthesis
    memoryCandidates,     \* input of memory synthesis (before compaction)
    failure,              \* the Error that ended the run: kind and message
    runs,                 \* runs started so far
    faults,               \* LLM faults injected so far
    diskFaults,           \* disk faults injected so far
    signal,               \* LLM client: options.signal.aborted
    calls,                \* LLM client: one record per fetchJsonWithRetry
    cache,                \* extraction cache: directories, manifest, ensure()
    streamer,             \* JSON array streamer: input, buffer, parser state
    archive,              \* ZIP input: archive handle and entry stream
    extraction,           \* extractByModels / discoverModels over one input
    chooser,              \* choosePrimaryModel over one list of candidates
    walk,                 \* current-path walk over one conversation
    sampler,              \* selectConversationFiles over one set of files
    compaction,           \* compactMemories and the lorebook cap
    jobs                  \* main process: tracked generate job and its events

runVars ==
    << request, chunksForPersona, chunksForMemory, personaChunksPending,
       memoryChunksPending, loaded >>

memVars ==
    << personaObservationByConversation, memoryCandidatesBySourceFile,
       processedMemoryFileSet, manifest >>

poolVars == << poolStage, cursor, runners >>

queueVars == << checkpointWriteQueue, manifestWriteQueue >>

synthVars == << personaObservations, memoryCandidates >>

clientVars == << signal, calls >>

engineVars ==
    << disk, pc, runVars, memVars, poolVars, aborted, queueVars, errors,
       llmLog, llmResponse, synthVars, failure, runs, faults, diskFaults >>

\* what the actions of one component leave alone
pipelineVars == << cache, streamer, archive, extraction, chooser >>

toolVars == << walk, sampler, compaction, jobs >>

engineRest == << clientVars, pipelineVars, toolVars >>

clientRest == << engineVars, pipelineVars, toolVars >>

cacheRest ==
    << engineVars, clientVars, streamer, archive, extraction, chooser,
       toolVars >>

streamerRest ==
    << engineVars, clientVars, cache, archive, extraction, chooser, toolVars >>

archiveRest ==
    << engineVars, clientVars, cache, streamer, extraction, chooser,
       toolVars >>

extractionRest ==
    << engineVars, clientVars, cache, streamer, archive, chooser, toolVars >>

chooserRest ==
    << engineVars, clientVars, cache, streamer, archive, extraction,
       toolVars >>

walkRest ==
    << engineVars, clientVars, pipelineVars, sampler, compaction, jobs >>

samplerRest ==
    << engineVars, clientVars, pipelineVars, walk, compaction, jobs >>

compactionRest ==
    << engineVars, clientVars, pipelineVars, walk, sampler, jobs >>

jobsRest ==
    << engineVars, clientVars, pipelineVars, walk, sampler, compaction >>

vars == << engineVars, clientVars, pipelineVars, toolVars >>

(* ----------------------------- call labels ---------------------------- *)

PerConversationStages == {"persona_observation", "memory_extract"}

Labels ==
    {<<s, k>> : s \in PerConversationStages, k \in Conv}
        \cup {<<"preflight", 0>>, <<"persona_synthesis", 0>>,
              <<"memory_synthesis", 0>>}

NoCalls == [l \in Labels |-> 0]

EmptyLog == [started |-> NoCalls, completed |-> NoCalls, failed |-> NoCalls]

beginCall(log, label) ==
    [log EXCEPT !.started[label] = @ + 1]

completeCall(log, label) ==
    [log EXCEPT !.completed[label] = @ + 1]

failCall(log, label) ==
    [log EXCEPT !.failed[label] = @ + 1]

RECURSIVE beginCalls(_, _, _)
\* beginCall for each chunk of `rows`, in order
beginCalls(log, stage, rows) ==
    IF rows = << >> THEN log
    ELSE beginCalls(beginCall(log, <<stage, Head(rows)>>), stage, Tail(rows))

(* --------------------------- engine helpers --------------------------- *)

\* line 2973
maxParallel == Max(1, Min(request.maxParallelCalls, 16))

IdleRunner == [pc |-> "off", chunk |-> 0]

NoRunners == [w \in Conv |-> IdleRunner]

EmptyQueue == [entries |-> << >>, rejected |-> FALSE]

\* rows of the stage the pool works on
PoolRows ==
    IF poolStage = "persona_observation" THEN personaChunksPending
    ELSE memoryChunksPending

\* every runner has returned and every chained write has settled
Quiescent ==
    /\ \A w \in Conv : runners[w].pc \in {"off", "done", "thrown"}
    /\ checkpointWriteQueue.entries = << >>
    /\ manifestWriteQueue.entries = << >>

Terminal == {"done", "failed", "cancelled"}

\* positions from which the main coroutine continues without an event
UrgentPcs ==
    {"after_preflight", "after_persona_observation", "after_memory_extract",
     "after_persona_synthesis", "after_memory_synthesis"}

\* a rejected write chain passes its rejection on to every chained write
RejectionPending(q) == q.rejected /\ q.entries # << >>

\* the head of the chain is a write that is performed
WritePending(q) == q.entries # << >> /\ ~q.rejected

\* no continuation is waiting to run: external events may be delivered
EventLoopIdle ==
    /\ pc \notin UrgentPcs
    /\ ~RejectionPending(checkpointWriteQueue)
    /\ ~RejectionPending(manifestWriteQueue)

\* a payload that leaves out the candidate lists
CheckpointPayloadWithoutCandidates(obs, cands, processedSet) ==
    [state |-> "ok",
     signature |-> resumeCheckpointSignature(request),
     obs |-> obs,
     cands |-> EmptyMap,
     processed |-> Filter(chunksForMemory, processedSet)]

\* persistCheckpoint: the payload is built when the write is requested
CheckpointPayload(obs, cands, processedSet) ==
    [state |-> "ok",
     signature |-> resumeCheckpointSignature(request),
     obs |-> obs,
     cands |-> cands,
     processed |-> Filter(chunksForMemory, processedSet)]

\* a chain that performs the write requested last first
EnqueueInFront(q, owner, payload) ==
    [q EXCEPT !.entries = << [owner |-> owner, payload |-> payload] >> \o @]

\* `queue = queue.then(write)` (lines 3063-3065, 3071-3073): the write
\* waits for every write requested before it
Enqueue(q, owner, payload) ==
    [q EXCEPT !.entries = Append(@, [owner |-> owner, payload |-> payload])]

\* the observation stored for a response: payload.conversation_id is always
\* set, also on the empty object extractJsonObject returns for text
\* without JSON
ObservationOf(response) == IF response = "json" THEN "full" ELSE "idonly"

\* toMemoryCandidates(extractMemoryRows(parsed)): one candidate, tagged with
\* its source conversation, or none when no JSON was found
CandidatesOf(response, chunk) ==
    IF response = "json" THEN << chunk >> ELSE << >>

RECURSIVE CollectObservationsNewestFirst(_, _)
\* a collection that puts each observation in front of the ones collected
\* before it
CollectObservationsNewestFirst(chunks, obs) ==
    IF chunks = << >> THEN << >>
    ELSE LET c == Head(chunks) IN
         CollectObservationsNewestFirst(Tail(chunks), obs)
         \o (IF c \in DOMAIN obs /\ obs[c] # "empty"
               THEN << [conversation |-> c, observation |-> obs[c]] >>
               ELSE << >>)

RECURSIVE CollectObservations(_, _)
\* lines 3239-3246
CollectObservations(chunks, obs) ==
    IF chunks = << >> THEN << >>
    ELSE LET c == Head(chunks) IN
         (IF c \in DOMAIN obs /\ obs[c] # "empty"
            THEN << [conversation |-> c, observation |-> obs[c]] >>
            ELSE << >>)
         \o CollectObservations(Tail(chunks), obs)

RECURSIVE CollectCandidates(_, _)
\* lines 3293-3299
CollectCandidates(chunks, cands) ==
    IF chunks = << >> THEN << >>
    ELSE LET c == Head(chunks) IN
         (IF c \in DOMAIN cands /\ Len(cands[c]) > 0 THEN cands[c] ELSE << >>)
         \o CollectCandidates(Tail(chunks), cands)

(* ------------------------------- failures ------------------------------ *)

\* a summary that leaves the collected errors out
summarizeErrorsAsEmpty(errs) == [sample |-> << >>, more |-> 0]

\* summarizeErrors: the first four errors and the number of the others
summarizeErrors(errs) ==
    [sample |-> SubSeq(errs, 1, Min(4, Len(errs))),
     more |-> Max(0, Len(errs) - 4)]

\* the Error thrown by runGenerationLlm: which throw statement, and the
\* error summary its message carries
Failure(kind, errs) == [kind |-> kind, summary |-> summarizeErrors(errs)]

\* a message without error summary
FailureWithoutSummary(kind) ==
    [kind |-> kind, summary |-> [sample |-> << >>, more |-> 0]]

NoFailure == FailureWithoutSummary("none")

(* -------------------------------- Init --------------------------------- *)

AbsentManifest == [state |-> "absent", scanned |-> {}]

PartialManifest == [state |-> "partial", scanned |-> {}]

\* the request variable before the first run
NoRequest ==
    [params |-> 1, append |-> FALSE, force |-> FALSE,
     maxParallelCalls |-> 0, existing |-> 0]

NoResponses == [l \in Labels |-> "none"]

(* ------------------------------ LLM client ----------------------------- *)

\* calls of chatComplete / chatCompleteJson that share the signal of a run
Call == 1..NumCalls

\* the strings isRetryableError looks for in the lower-cased error message
RETRY_MARKERS ==
    {"429", "500", "502", "503", "504", "too many requests", "rate limit",
     "overloaded", "temporarily unavailable", "service unavailable",
     "timeout", "timed out", "connection reset", "try again later"}

\* An error is its name and the phrases its lower-cased message contains.
NoError == [name |-> "none", text |-> {}]

\* fetchJson, lines 4310-4316: "Request timed out after ..."
TimeoutError ==
    [name |-> "TimeoutError", text |-> {"request timed out", "timed out"}]

\* fetchJson, lines 4317-4323: "Request aborted by upstream signal ..."
AbortError ==
    [name |-> "AbortError", text |-> {"request aborted by upstream signal"}]

\* the other errors of one attempt (lines 4324-4336): a status that is not
\* ok, a body that is not JSON, a network error passed on as it is
HttpErrors ==
    {[name |-> "Error", text |-> {"http 429", "429", "too many requests"}],
     [name |-> "Error", text |-> {"http 400", "bad request"}],
     [name |-> "Error", text |-> {"invalid json response"}],
     [name |-> "Error", text |-> {"read econnreset", "connection reset"}]}

\* a classification under which every error is retryable
isRetryableErrorAlways(error) == TRUE

\* isRetryableError: some marker is contained in the message
isRetryableError(error) == \E marker \in RETRY_MARKERS : marker \in error.text

\* a fetch that sends its request whatever the state of its signal
fetchSendsRequestAlways(signalAborted) == TRUE

\* fetch(url, {signal}) called by fetchJson (lines 4294-4308): with a signal
\* that is already aborted the promise is rejected and no request is sent
fetchSendsRequest(signalAborted) == ~signalAborted

\* a call of the client that has not been made
NoCall == [pc |-> "new", attempt |-> 0, requests |-> 0, error |-> NoError]

\* the client before any call, with a signal that is not aborted
ClientIdle ==
    /\ signal = FALSE
    /\ calls = [k \in Call |-> NoCall]

(* ------------------------- components at rest -------------------------- *)

\* no ensure() has been called and the cache root is empty
NoCache == [pc |-> "off"]

\* no stream is being parsed
NoStreamer == [pc |-> "off"]

\* no archive has been opened
NoArchive == [pc |-> "off"]

\* no input is being extracted
NoExtraction == [pc |-> "off"]

\* no primary model is being chosen
NoChooser == [pc |-> "off"]

\* no conversation is being walked
NoWalk == [pc |-> "off"]

\* no files are being selected
NoSampler == [pc |-> "off"]

\* no memories are being compacted
NoCompaction == [pc |-> "off"]

\* no generate job is tracked
NoJobs == [pc |-> "off"]

\* the walk, the sampler, the compaction and the job table at rest
ToolsIdle ==
    /\ walk = NoWalk
    /\ sampler = NoSampler
    /\ compaction = NoCompaction
    /\ jobs = NoJobs

\* the cache, the streamer, the archive, the extraction and the chooser
\* at rest
PipelineOff ==
    /\ cache = NoCache
    /\ streamer = NoStreamer
    /\ archive = NoArchive
    /\ extraction = NoExtraction
    /\ chooser = NoChooser

\* the pipeline and the cache outside a generation run
PipelineIdle ==
    /\ cache = NoCache
    /\ streamer = NoStreamer
    /\ archive = NoArchive
    /\ extraction = NoExtraction
    /\ chooser = NoChooser
    /\ ToolsIdle

\* in-memory state of a process in which no run has started
ProcessIdle ==
    /\ pc = "idle"
    /\ request = NoRequest
    /\ chunksForPersona = << >>
    /\ chunksForMemory = << >>
    /\ personaChunksPending = << >>
    /\ memoryChunksPending = << >>
    /\ personaObservationByConversation = EmptyMap
    /\ memoryCandidatesBySourceFile = EmptyMap
    /\ processedMemoryFileSet = {}
    /\ manifest = {}
    /\ poolStage = "none"
    /\ cursor = 0
    /\ runners = NoRunners
    /\ aborted = FALSE
    /\ checkpointWriteQueue = EmptyQueue
    /\ manifestWriteQueue = EmptyQueue
    /\ errors = << >>
    /\ llmLog = EmptyLog
    /\ llmResponse = NoResponses
    /\ loaded = AbsentFile
    /\ personaObservations = << >>
    /\ memoryCandidates = << >>
    /\ failure = NoFailure

\* The run directory is new, or holds the checkpoint of an earlier version.
Init ==
    /\ disk \in {[ckpt |-> AbsentFile, manifest |-> AbsentManifest],
                 [ckpt |-> LegacyFile, manifest |-> AbsentManifest]}
    /\ ProcessIdle
    /\ runs = 0
    /\ faults = 0
    /\ diskFaults = 0
    /\ ClientIdle
    /\ PipelineIdle

\* a run that takes every request for a full generation
appendMemoriesIgnored(req) == FALSE

\* input.appendMemories as runGenerationLlm tests it (lines 3038, 3202,
\* 3240, 3308)
appendMemories(req) == req.append

(* ------------------------------ run start ------------------------------ *)

\* runGeneration up to the call of runGenerationLlm (lines 3698-3789) and
\* runGenerationLlm up to the preflight call (lines 2951-3162).  A run
\* starts in a process without a run, or after every coroutine of the run
\* before it has settled.
StartRun(req) ==
    /\ pc = "idle" \/ (pc \in Terminal /\ Quiescent)
    /\ runs < MaxRuns
    /\ LET scanned0 == readManifest(disk.manifest)
           scanned == IF req.force THEN {} ELSE scanned0
           selected == selectConversationFiles(req.params)
           forMemory == IF req.append /\ ~req.force
                          THEN Filter(selected, Conv \ scanned)
                          ELSE selected
           signature == resumeCheckpointSignature(req)
           checkpoint == IF req.force
                           THEN normalizeResumeCheckpoint(AbsentFile, signature)
                           ELSE readResumeCheckpoint(disk.ckpt, signature)
           obs == checkpoint.obs
           cands == NonEmptyCands(checkpoint.cands)
           valid == Range(forMemory)
           processedSet == (Range(checkpoint.processed) \cap valid)
                               \cup ((DOMAIN cands) \cap valid)
       IN  /\ request' = req
           /\ chunksForPersona' = selected
           /\ chunksForMemory' = forMemory
           /\ manifest' = scanned
           /\ loaded' = disk.ckpt
           /\ personaObservationByConversation' = obs
           /\ memoryCandidatesBySourceFile' = cands
           /\ processedMemoryFileSet' = processedSet
           /\ personaChunksPending' =
                 IF appendMemories(req) THEN << >>
                 ELSE Filter(selected, Conv \ DOMAIN obs)
           /\ memoryChunksPending' = Filter(forMemory, Conv \ processedSet)
    /\ poolStage' = "none"
    /\ cursor' = 0
    /\ runners' = NoRunners
    /\ aborted' = FALSE
    /\ checkpointWriteQueue' = EmptyQueue
    /\ manifestWriteQueue' = EmptyQueue
    /\ errors' = << >>
    /\ llmLog' = beginCall(EmptyLog, <<"preflight", 0>>)
    /\ llmResponse' = NoResponses
    /\ personaObservations' = << >>
    /\ memoryCandidates' = << >>
    /\ pc' = "preflight"
    /\ failure' = NoFailure
    /\ runs' = runs + 1
    /\ UNCHANGED << disk, faults, diskFaults, engineRest >>

\* answers of the LLM to a call: after the signal is set the call in flight
\* ends with the abort sentinel
Answers(good) == IF aborted THEN {"abort"} ELSE good \cup {"error"}

IsFault(r) == r \in {"error", "nojson", "empty"}

CountFault(r) ==
    /\ IsFault(r) => faults < MaxFaults
    /\ faults' = IF IsFault(r) THEN faults + 1 ELSE faults

\* a preflight whose error or empty answer does not stop the run
PreflightOutcomeContinuing(r) ==
    IF r = "abort" THEN "cancelled" ELSE "after_preflight"

\* lines 3182-3194: where the main coroutine goes on after the preflight
\* answer `r`
PreflightOutcome(r) ==
    CASE r = "ok" -> "after_preflight"
      [] r = "abort" -> "cancelled"
      [] OTHER -> "failed"

\* lines 3162-3195
PreflightReturn(r) ==
    /\ pc = "preflight"
    /\ EventLoopIdle
    /\ r \in Answers({"ok", "empty"})
    /\ CountFault(r)
    /\ llmResponse' = [llmResponse EXCEPT ![<<"preflight", 0>>] = r]
    /\ llmLog' = IF r = "ok" THEN completeCall(llmLog, <<"preflight", 0>>)
                 ELSE failCall(llmLog, <<"preflight", 0>>)
    /\ pc' = PreflightOutcome(r)
    /\ failure' = IF r \in {"ok", "abort"} THEN failure
                  ELSE FailureWithoutSummary("preflight")
    /\ UNCHANGED << disk, runVars, memVars, poolVars, aborted, queueVars,
                    errors, synthVars, runs, engineRest, diskFaults >>

(* --------------------------- runWithConcurrency ------------------------ *)

AfterStage(stage) ==
    IF stage = "persona_observation" THEN "after_persona_observation"
    ELSE "after_memory_extract"

\* a pool that starts one runner for every row
PoolSizeOfAllRows(rows) == Max(1, Len(rows))

\* line 2695: the number of runners
PoolSize(rows) == Max(1, Min(maxParallel, Len(rows)))

\* a cursor that is left where it was when an index is claimed
CursorAfterStaleClaim(index) == index

\* lines 2702-2703: `const index = cursor; cursor += 1`, with no await
\* in between
CursorAfterClaim(index) == index + 1

\* lines 2691-2709 up to the first await of every runner: each runner claims
\* the index under the cursor and starts its call
StartPool(stage, rows) ==
    IF aborted THEN
        /\ pc' = "cancelled"
        /\ UNCHANGED << poolVars, llmLog >>
    ELSE IF rows = << >> THEN
        /\ pc' = AfterStage(stage)
        /\ UNCHANGED << poolVars, llmLog >>
    ELSE
        LET max == PoolSize(rows) IN
        /\ poolStage' = stage
        /\ cursor' = max
        /\ runners' = [w \in Conv |->
                          IF w <= max THEN [pc |-> "call", chunk |-> rows[w]]
                          ELSE IdleRunner]
        /\ llmLog' = beginCalls(llmLog, stage, SubSeq(rows, 1, max))
        /\ pc' = stage

\* lines 2700-2706 after the worker of runner w has returned: the runner
\* throws on a set signal, claims the next index, or ends; `log` is the call
\* log as the worker left it
RunnerNext(w, log) ==
    IF aborted THEN
        /\ runners' = [runners EXCEPT ![w] = [pc |-> "thrown", chunk |-> 0]]
        /\ pc' = IF pc = poolStage THEN "cancelled" ELSE pc
        /\ cursor' = cursor
        /\ llmLog' = log
    ELSE IF cursor < Len(PoolRows) THEN
        /\ cursor' = CursorAfterClaim(cursor)
        /\ runners' = [runners EXCEPT
                         ![w] = [pc |-> "call", chunk |-> PoolRows[cursor + 1]]]
        /\ llmLog' = beginCall(log, <<poolStage, PoolRows[cursor + 1]>>)
        /\ pc' = pc
    ELSE
        /\ runners' = [runners EXCEPT ![w] = [pc |-> "done", chunk |-> 0]]
        /\ pc' = IF /\ pc = poolStage
                    /\ \A v \in Conv \ {w} : runners[v].pc \in {"off", "done"}
                 THEN AfterStage(poolStage) ELSE pc
        /\ cursor' = cursor
        /\ llmLog' = log

(* ------------------------ per-conversation workers --------------------- *)

\* a catch that passes every error on to the pool, which rejects
WorkerCatchRethrowing(w, label) ==
    /\ errors' = errors
    /\ runners' = [runners EXCEPT ![w] = [pc |-> "thrown", chunk |-> 0]]
    /\ pc' = IF pc = poolStage THEN "failed" ELSE pc
    /\ cursor' = cursor
    /\ llmLog' = failCall(llmLog, label)

\* the catch of a worker for an error that is not the abort sentinel (lines
\* 3232-3234, 3287-3289): failCall, errors.push, and the worker returns an
\* empty result to its runner
WorkerCatch(w, label) ==
    /\ errors' = Append(errors, label)
    /\ RunnerNext(w, failCall(llmLog, label))

\* persona_observation worker, lines 3216-3235: the continuation after
\* chatCompleteJson settles
PersonaCallReturn(w, r) ==
    LET chunk == runners[w].chunk
        label == <<"persona_observation", chunk>>
    IN
    /\ poolStage = "persona_observation"
    /\ runners[w].pc = "call"
    /\ EventLoopIdle
    /\ r \in Answers({"json", "nojson"})
    /\ CountFault(r)
    /\ llmResponse' = [llmResponse EXCEPT ![label] = r]
    /\ CASE r \in {"json", "nojson"} ->
              LET obs == Put(personaObservationByConversation, chunk,
                             ObservationOf(r))
              IN  /\ personaObservationByConversation' = obs
                  /\ checkpointWriteQueue' =
                        Enqueue(checkpointWriteQueue, w,
                                CheckpointPayload(obs,
                                    memoryCandidatesBySourceFile,
                                    processedMemoryFileSet))
                  /\ runners' = [runners EXCEPT ![w].pc = "checkpoint_write"]
                  /\ UNCHANGED << pc, cursor, llmLog, errors >>
         [] r = "error" ->
              /\ WorkerCatch(w, label)
              /\ UNCHANGED << personaObservationByConversation,
                              checkpointWriteQueue >>
         [] r = "abort" ->
              /\ runners' = [runners EXCEPT ![w] = [pc |-> "thrown", chunk |-> 0]]
              /\ pc' = IF pc = poolStage THEN "cancelled" ELSE pc
              /\ llmLog' = failCall(llmLog, label)
              /\ UNCHANGED << personaObservationByConversation,
                              checkpointWriteQueue, cursor, errors >>
    /\ UNCHANGED << disk, runVars, memoryCandidatesBySourceFile,
                    processedMemoryFileSet, manifest, poolStage, aborted,
                    manifestWriteQueue, synthVars, failure, runs, engineRest,
                    diskFaults >>

\* memory_extract worker, lines 3267-3290, with markMemoryFileProcessed
\* (lines 3077-3090) up to its await of persistManifest.  The stat awaited
\* in between touches no shared state, its completion is part of this
\* step; when it fails the catch swallows the error and the worker goes on
\* to persistCheckpoint (line 3279).
MemoryCallReturn(w, r, statOk) ==
    LET chunk == runners[w].chunk
        label == <<"memory_extract", chunk>>
    IN
    /\ poolStage = "memory_extract"
    /\ runners[w].pc = "call"
    /\ EventLoopIdle
    /\ r \in Answers({"json", "nojson"})
    /\ CountFault(r)
    /\ (~statOk) => (r \in {"json", "nojson"} /\ diskFaults < MaxDiskFaults)
    /\ diskFaults' = IF statOk THEN diskFaults ELSE diskFaults + 1
    /\ llmResponse' = [llmResponse EXCEPT ![label] = r]
    /\ CASE r \in {"json", "nojson"} ->
              LET cands == Put(memoryCandidatesBySourceFile, chunk,
                               CandidatesOf(r, chunk))
                  processedSet == processedMemoryFileSet \cup {chunk}
              IN  /\ memoryCandidatesBySourceFile' = cands
                  /\ processedMemoryFileSet' = processedSet
                  /\ IF statOk THEN
                        /\ manifest' = manifest \cup {chunk}
                        /\ manifestWriteQueue' =
                              Enqueue(manifestWriteQueue, w, {})
                        /\ runners' =
                              [runners EXCEPT ![w].pc = "manifest_write"]
                        /\ UNCHANGED checkpointWriteQueue
                     ELSE
                        /\ checkpointWriteQueue' =
                              Enqueue(checkpointWriteQueue, w,
                                  CheckpointPayload(
                                      personaObservationByConversation,
                                      cands, processedSet))
                        /\ runners' =
                              [runners EXCEPT ![w].pc = "checkpoint_write"]
                        /\ UNCHANGED << manifest, manifestWriteQueue >>
                  /\ UNCHANGED << pc, cursor, llmLog, errors >>
         [] r = "error" ->
              /\ WorkerCatch(w, label)
              /\ UNCHANGED << memoryCandidatesBySourceFile,
                              processedMemoryFileSet, manifest, queueVars >>
         [] r = "abort" ->
              /\ runners' = [runners EXCEPT ![w] = [pc |-> "thrown", chunk |-> 0]]
              /\ pc' = IF pc = poolStage THEN "cancelled" ELSE pc
              /\ llmLog' = failCall(llmLog, label)
              /\ UNCHANGED << memoryCandidatesBySourceFile,
                              processedMemoryFileSet, manifest, queueVars,
                              cursor, errors >>
    /\ UNCHANGED << disk, runVars, personaObservationByConversation,
                    poolStage, aborted, synthVars, failure, runs,
                    engineRest >>

(* ----------------------------- write queues ---------------------------- *)

\* Each queue is the chain of promises behind checkpointWriteQueue and
\* manifestWriteQueue: its head is the write being performed, the others
\* wait for it.

\* the coroutine that awaited the manifest write goes on: a worker requests
\* its checkpoint write whatever the outcome (the catch of
\* markMemoryFileProcessed), the main coroutine (line 3423) fails on a
\* rejection
AfterManifestWrite(owner, ok) ==
    /\ IF owner = 0 THEN
          /\ pc' = IF ok THEN "final_checkpoint" ELSE "failed"
          /\ runners' = runners
          /\ checkpointWriteQueue' =
                IF ok THEN
                    Enqueue(checkpointWriteQueue, 0,
                        CheckpointPayload(personaObservationByConversation,
                            memoryCandidatesBySourceFile,
                            processedMemoryFileSet))
                ELSE checkpointWriteQueue
       ELSE
          /\ pc' = pc
          /\ runners' = [runners EXCEPT ![owner].pc = "checkpoint_write"]
          /\ checkpointWriteQueue' =
                Enqueue(checkpointWriteQueue, owner,
                    CheckpointPayload(personaObservationByConversation,
                        memoryCandidatesBySourceFile,
                        processedMemoryFileSet))
    /\ failure' = IF owner = 0 /\ ~ok THEN FailureWithoutSummary("disk")
                  ELSE failure

\* saveManifest reached through the chain (lines 3071-3073, 2429-2432): the
\* manifest is serialised when writeFile is called; a failing writeFile
\* leaves a truncated file
ManifestWrite(ok) ==
    /\ manifestWriteQueue.entries # << >>
    /\ ~manifestWriteQueue.rejected
    /\ EventLoopIdle
    /\ ~ok => diskFaults < MaxDiskFaults
    /\ diskFaults' = IF ok THEN diskFaults ELSE diskFaults + 1
    /\ disk' = [disk EXCEPT !.manifest =
                  IF ok THEN [state |-> "ok", scanned |-> manifest]
                  ELSE PartialManifest]
    /\ manifestWriteQueue' =
          [entries |-> Tail(manifestWriteQueue.entries), rejected |-> ~ok]
    /\ AfterManifestWrite(manifestWriteQueue.entries[1].owner, ok)
    /\ UNCHANGED << runVars, memVars, poolStage, cursor, aborted, errors,
                    llmLog, llmResponse, synthVars, runs, engineRest,
                    faults >>

\* a write chained onto a rejected promise is not performed: its promise is
\* rejected with the same error
ManifestWriteRejected ==
    /\ RejectionPending(manifestWriteQueue)
    /\ pc \notin UrgentPcs
    /\ manifestWriteQueue' =
          [manifestWriteQueue EXCEPT !.entries = Tail(@)]
    /\ AfterManifestWrite(manifestWriteQueue.entries[1].owner, FALSE)
    /\ UNCHANGED << disk, runVars, memVars, poolStage, cursor, aborted,
                    errors, llmLog, llmResponse, synthVars, runs, engineRest,
                    faults, diskFaults >>

\* the coroutine that awaited the checkpoint write goes on: a worker
\* completes its call (lines 3225, 3280) or lands in its catch (lines
\* 3232-3234, 3287-3289); the main coroutine (line 3424) returns or fails
AfterCheckpointWrite(owner, ok) ==
    /\ IF owner = 0 THEN
          /\ pc' = IF ok THEN "save_manifest" ELSE "failed"
          /\ UNCHANGED << cursor, runners, llmLog, errors >>
       ELSE
          LET label == <<poolStage, runners[owner].chunk>> IN
          IF ok THEN
              /\ RunnerNext(owner, completeCall(llmLog, label))
              /\ errors' = errors
          ELSE WorkerCatch(owner, label)
    /\ failure' = IF owner = 0 /\ ~ok THEN FailureWithoutSummary("disk")
                  ELSE failure

\* saveResumeCheckpoint reached through the chain (lines 3063-3065,
\* 2596-2602): the payload built at the request replaces the file
CheckpointWrite(ok) ==
    /\ checkpointWriteQueue.entries # << >>
    /\ ~checkpointWriteQueue.rejected
    /\ EventLoopIdle
    /\ ~ok => diskFaults < MaxDiskFaults
    /\ diskFaults' = IF ok THEN diskFaults ELSE diskFaults + 1
    /\ disk' = [disk EXCEPT !.ckpt =
                  IF ok THEN checkpointWriteQueue.entries[1].payload
                  ELSE PartialFile]
    /\ checkpointWriteQueue' =
          [entries |-> Tail(checkpointWriteQueue.entries), rejected |-> ~ok]
    /\ AfterCheckpointWrite(checkpointWriteQueue.entries[1].owner, ok)
    /\ UNCHANGED << runVars, memVars, poolStage, aborted, manifestWriteQueue,
                    llmResponse, synthVars, runs, engineRest, faults >>

CheckpointWriteRejected ==
    /\ RejectionPending(checkpointWriteQueue)
    /\ pc \notin UrgentPcs
    /\ checkpointWriteQueue' =
          [checkpointWriteQueue EXCEPT !.entries = Tail(@)]
    /\ AfterCheckpointWrite(checkpointWriteQueue.entries[1].owner, FALSE)
    /\ UNCHANGED << disk, runVars, memVars, poolStage, aborted,
                    manifestWriteQueue, llmResponse, synthVars, runs,
                    engineRest, faults, diskFaults >>

(* --------------------------- main coroutine ---------------------------- *)

\* lines 3197-3237: the persona stage is entered in full mode only
AfterPreflight ==
    /\ pc = "after_preflight"
    /\ IF appendMemories(request) THEN
          /\ pc' = "after_persona_observation"
          /\ UNCHANGED << poolVars, llmLog >>
       ELSE StartPool("persona_observation", personaChunksPending)
    /\ UNCHANGED << disk, runVars, memVars, aborted, queueVars, errors,
                    llmResponse, synthVars, failure, runs, engineRest, faults,
                    diskFaults >>

\* lines 3239-3291: the observations are collected in packet order, the run
\* fails when there is none, and the memory stage is entered
AfterPersonaObservation ==
    /\ pc = "after_persona_observation"
    /\ LET observations ==
              IF appendMemories(request) THEN << >>
              ELSE CollectObservations(chunksForPersona,
                                       personaObservationByConversation)
       IN  /\ personaObservations' = observations
           /\ IF ~appendMemories(request) /\ observations = << >> THEN
                 /\ pc' = "failed"
                 /\ failure' = Failure("persona_observation", errors)
                 /\ UNCHANGED << poolVars, llmLog >>
              ELSE
                 /\ failure' = failure
                 /\ StartPool("memory_extract", memoryChunksPending)
    /\ UNCHANGED << disk, runVars, memVars, aborted, queueVars, errors,
                    llmResponse, memoryCandidates, runs, engineRest, faults,
                    diskFaults >>

\* lines 3293-3329: the candidates are collected in packet order, the run
\* fails when packets were selected and there is no candidate, and persona
\* synthesis is called in full mode
AfterMemoryExtract ==
    /\ pc = "after_memory_extract"
    /\ LET candidates ==
              CollectCandidates(chunksForMemory, memoryCandidatesBySourceFile)
       IN  /\ memoryCandidates' = candidates
           /\ IF chunksForMemory # << >> /\ candidates = << >> THEN
                 /\ pc' = "failed"
                 /\ failure' = Failure("memory_extract", errors)
                 /\ llmLog' = llmLog
              ELSE IF ~appendMemories(request) /\ personaObservations # << >> THEN
                 /\ pc' = "persona_synthesis"
                 /\ failure' = failure
                 /\ llmLog' = beginCall(llmLog, <<"persona_synthesis", 0>>)
              ELSE IF ~appendMemories(request) THEN
                 /\ pc' = "failed"
                 /\ failure' = Failure("persona_synthesis", errors)
                 /\ llmLog' = llmLog
              ELSE
                 /\ pc' = "after_persona_synthesis"
                 /\ failure' = failure
                 /\ llmLog' = llmLog
    /\ UNCHANGED << disk, runVars, memVars, poolVars, aborted, queueVars,
                    errors, llmResponse, personaObservations, runs,
                    engineRest, faults, diskFaults >>

\* lines 3330-3352: a synthesis answer without JSON is an empty payload,
\* which fails the run like an error does
PersonaSynthesisReturn(r) ==
    /\ pc = "persona_synthesis"
    /\ EventLoopIdle
    /\ r \in Answers({"json", "nojson"})
    /\ CountFault(r)
    /\ llmResponse' = [llmResponse EXCEPT ![<<"persona_synthesis", 0>>] = r]
    /\ llmLog' = IF r \in {"json", "nojson"}
                 THEN completeCall(llmLog, <<"persona_synthesis", 0>>)
                 ELSE failCall(llmLog, <<"persona_synthesis", 0>>)
    /\ errors' = IF r = "error"
                 THEN Append(errors, <<"persona_synthesis", 0>>) ELSE errors
    /\ pc' = CASE r = "json" -> "after_persona_synthesis"
               [] r = "abort" -> "cancelled"
               [] OTHER -> "failed"
    /\ failure' = IF r \in {"json", "abort"} THEN failure
                  ELSE Failure("persona_synthesis", errors')
    /\ UNCHANGED << disk, runVars, memVars, poolVars, aborted, queueVars,
                    synthVars, runs, engineRest, diskFaults >>

\* lines 3355-3379: existing rows and candidates are compacted (compaction
\* never empties a non-empty list of candidates that carry content and
\* keys) and memory synthesis is called
AfterPersonaSynthesis ==
    /\ pc = "after_persona_synthesis"
    /\ IF request.existing + Len(memoryCandidates) = 0 THEN
          /\ pc' = "failed"
          /\ llmLog' = llmLog
       ELSE
          /\ pc' = "memory_synthesis"
          /\ llmLog' = beginCall(llmLog, <<"memory_synthesis", 0>>)
    /\ failure' = IF request.existing + Len(memoryCandidates) = 0
                  THEN FailureWithoutSummary("no_candidates") ELSE failure
    /\ UNCHANGED << disk, runVars, memVars, poolVars, aborted, queueVars,
                    errors, llmResponse, synthVars, runs, engineRest, faults,
                    diskFaults >>

\* lines 3381-3403: zero rows throw inside the try and end in its catch
MemorySynthesisReturn(r) ==
    /\ pc = "memory_synthesis"
    /\ EventLoopIdle
    /\ r \in Answers({"json", "nojson"})
    /\ CountFault(r)
    /\ llmResponse' = [llmResponse EXCEPT ![<<"memory_synthesis", 0>>] = r]
    /\ llmLog' = IF r = "json"
                 THEN completeCall(llmLog, <<"memory_synthesis", 0>>)
                 ELSE failCall(llmLog, <<"memory_synthesis", 0>>)
    /\ errors' = IF r \in {"error", "nojson"}
                 THEN Append(errors, <<"memory_synthesis", 0>>) ELSE errors
    /\ pc' = CASE r = "json" -> "after_memory_synthesis"
               [] r = "abort" -> "cancelled"
               [] OTHER -> "failed"
    /\ failure' = IF r \in {"json", "abort"} THEN failure
                  ELSE Failure("memory_synthesis", errors')
    /\ UNCHANGED << disk, runVars, memVars, poolVars, aborted, queueVars,
                    synthVars, runs, engineRest, diskFaults >>

\* line 3405
AfterMemorySynthesis ==
    /\ pc = "after_memory_synthesis"
    /\ pc' = IF aborted THEN "cancelled" ELSE "final_stat"
    /\ UNCHANGED << disk, runVars, memVars, poolVars, aborted, queueVars,
                    errors, llmLog, llmResponse, synthVars, failure, runs,
                    engineRest, faults, diskFaults >>

\* lines 3407-3423: every processed file whose stat succeeds is entered in
\* the manifest, then persistManifest is requested; `failing` are the files
\* whose stat fails
FinalStat(failing) ==
    /\ pc = "final_stat"
    /\ EventLoopIdle
    /\ failing \subseteq processedMemoryFileSet
    /\ Cardinality(failing) <= 1
    /\ diskFaults + Cardinality(failing) <= MaxDiskFaults
    /\ diskFaults' = diskFaults + Cardinality(failing)
    /\ manifest' = manifest \cup
          (Range(Filter(chunksForMemory, processedMemoryFileSet)) \ failing)
    /\ manifestWriteQueue' = Enqueue(manifestWriteQueue, 0, {})
    /\ pc' = "final_manifest"
    /\ UNCHANGED << disk, runVars, personaObservationByConversation,
                    memoryCandidatesBySourceFile, processedMemoryFileSet,
                    poolVars, aborted, checkpointWriteQueue, errors, llmLog,
                    llmResponse, synthVars, failure, runs, engineRest,
                    faults >>

\* runGeneration line 3790: saveManifest after runGenerationLlm returned
SaveManifest(ok) ==
    /\ pc = "save_manifest"
    /\ EventLoopIdle
    /\ ~ok => diskFaults < MaxDiskFaults
    /\ diskFaults' = IF ok THEN diskFaults ELSE diskFaults + 1
    /\ disk' = [disk EXCEPT !.manifest =
                  IF ok THEN [state |-> "ok", scanned |-> manifest]
                  ELSE PartialManifest]
    /\ pc' = IF ok THEN "done" ELSE "failed"
    /\ failure' = IF ok THEN failure ELSE FailureWithoutSummary("disk")
    /\ UNCHANGED << runVars, memVars, poolVars, aborted, queueVars, errors,
                    llmLog, llmResponse, synthVars, runs, engineRest,
                    faults >>

(* ----------------------------- environment ----------------------------- *)

\* the user cancels the job: the AbortController of the run is aborted
Cancel ==
    /\ pc \notin Terminal \cup {"idle"}
    /\ ~aborted
    /\ EventLoopIdle
    /\ aborted' = TRUE
    /\ UNCHANGED << disk, pc, runVars, memVars, poolVars, queueVars, errors,
                    llmLog, llmResponse, synthVars, failure, runs, engineRest,
                    faults, diskFaults >>

\* the process is killed: everything in memory is lost; a file whose write
\* is under way may be left truncated, the other files stay as they are
Kill ==
    /\ pc # "idle"
    /\ EventLoopIdle
    /\ pc' = "idle"
    /\ request' = NoRequest
    /\ chunksForPersona' = << >>
    /\ chunksForMemory' = << >>
    /\ personaChunksPending' = << >>
    /\ memoryChunksPending' = << >>
    /\ personaObservationByConversation' = EmptyMap
    /\ memoryCandidatesBySourceFile' = EmptyMap
    /\ processedMemoryFileSet' = {}
    /\ manifest' = {}
    /\ poolStage' = "none"
    /\ cursor' = 0
    /\ runners' = NoRunners
    /\ aborted' = FALSE
    /\ checkpointWriteQueue' = EmptyQueue
    /\ manifestWriteQueue' = EmptyQueue
    /\ errors' = << >>
    /\ llmLog' = EmptyLog
    /\ llmResponse' = NoResponses
    /\ loaded' = AbsentFile
    /\ personaObservations' = << >>
    /\ memoryCandidates' = << >>
    /\ \E cut \in SUBSET {"ckpt", "manifest"} :
          /\ "ckpt" \in cut => WritePending(checkpointWriteQueue)
          /\ "manifest" \in cut =>
                (WritePending(manifestWriteQueue) \/ pc = "save_manifest")
          /\ disk' = [ckpt |-> IF "ckpt" \in cut THEN PartialFile
                               ELSE disk.ckpt,
                      manifest |-> IF "manifest" \in cut THEN PartialManifest
                                   ELSE disk.manifest]
    /\ failure' = NoFailure
    /\ UNCHANGED << runs, engineRest, faults, diskFaults >>

Next ==
    \/ \E req \in Requests : StartRun(req)
    \/ \E r \in {"ok", "empty", "error", "abort"} : PreflightReturn(r)
    \/ AfterPreflight
    \/ \E w \in Conv, r \in {"json", "nojson", "error", "abort"} :
          PersonaCallReturn(w, r)
    \/ AfterPersonaObservation
    \/ \E w \in Conv, r \in {"json", "nojson", "error", "abort"},
          statOk \in BOOLEAN : MemoryCallReturn(w, r, statOk)
    \/ \E ok \in BOOLEAN : ManifestWrite(ok)
    \/ ManifestWriteRejected
    \/ \E ok \in BOOLEAN : CheckpointWrite(ok)
    \/ CheckpointWriteRejected
    \/ AfterMemoryExtract
    \/ \E r \in {"json", "nojson", "error", "abort"} : PersonaSynthesisReturn(r)
    \/ AfterPersonaSynthesis
    \/ \E r \in {"json", "nojson", "error", "abort"} : MemorySynthesisReturn(r)
    \/ AfterMemorySynthesis
    \/ \E failing \in SUBSET Conv : FinalStat(failing)
    \/ \E ok \in BOOLEAN : SaveManifest(ok)
    \/ Cancel
    \/ Kill

Spec == Init /\ [][Next]_vars

TypeOK ==
    /\ pc \in {"idle", "preflight", "persona_observation", "memory_extract",
               "persona_synthesis", "memory_synthesis", "final_stat",
               "final_manifest", "final_checkpoint", "save_manifest"}
              \cup UrgentPcs \cup Terminal
    /\ cursor \in 0..NumConv
    /\ runs \in 0..MaxRuns
    /\ failure.kind \in {"none", "preflight", "persona_observation",
                         "memory_extract", "persona_synthesis",
                         "no_candidates", "memory_synthesis", "disk"}
    /\ (failure # NoFailure) => pc \in {"failed", "idle"}

(* --------------------------- LLM client: calls ------------------------- *)

\* the rejection of an aborted fetch has not been handled yet
AbortPending == \E k \in Call : calls[k].pc = "aborting"

\* fetchJson up to the await of fetch (lines 4274-4308), entered by the
\* call `c` whose attempt counter is `attempt`
fetchJson(c, attempt) ==
    [pc |-> IF signal THEN "aborting" ELSE "fetch",
     attempt |-> attempt,
     requests |-> IF fetchSendsRequest(signal) THEN c.requests + 1
                  ELSE c.requests,
     error |-> c.error]

\* the catch of fetchJsonWithRetry (lines 4358-4377) for the error of the
\* attempt of call `c`: rethrow, or report the retry and sleep
catchAttempt(c, error) ==
    IF \/ signal
       \/ error.name = "AbortError"
       \/ error.name = "TimeoutError"
       \/ c.attempt >= MaxAttempts
       \/ ~isRetryableError(error)
    THEN [c EXCEPT !.pc = "thrown", !.error = error]
    ELSE [c EXCEPT !.pc = "backoff", !.error = error]

\* chatComplete / chatCompleteJson (lines 4512-4643): one call of
\* fetchJsonWithRetry, whose first iteration calls fetchJson
StartCall(k) ==
    /\ calls[k].pc = "new"
    /\ calls' = [calls EXCEPT ![k] = fetchJson(calls[k], 1)]
    /\ UNCHANGED << signal, clientRest >>

\* the response is ok and its body is JSON (lines 4332-4334)
HttpReturn(k) ==
    /\ calls[k].pc = "fetch"
    /\ ~AbortPending
    /\ calls' = [calls EXCEPT ![k].pc = "returned"]
    /\ UNCHANGED << signal, clientRest >>

\* the attempt ends with an error that is neither the timeout nor the abort
HttpError(k, error) ==
    /\ calls[k].pc = "fetch"
    /\ ~AbortPending
    /\ calls' = [calls EXCEPT ![k] = catchAttempt(calls[k], error)]
    /\ UNCHANGED << signal, clientRest >>

\* the timer of fetchJson fires (lines 4284-4287, 4310-4316)
HttpTimeout(k) ==
    /\ calls[k].pc = "fetch"
    /\ ~AbortPending
    /\ calls' = [calls EXCEPT ![k] = catchAttempt(calls[k], TimeoutError)]
    /\ UNCHANGED << signal, clientRest >>

\* the rejection of a fetch whose controller was aborted for the upstream
\* signal (lines 4289-4292, 4317-4323)
FetchAborted(k) ==
    /\ calls[k].pc = "aborting"
    /\ calls' = [calls EXCEPT ![k] = catchAttempt(calls[k], AbortError)]
    /\ UNCHANGED << signal, clientRest >>

\* delay() resolves (lines 4376-4377): the next iteration calls fetchJson
BackoffElapsed(k) ==
    /\ calls[k].pc = "backoff"
    /\ ~AbortPending
    /\ calls' = [calls EXCEPT ![k] = fetchJson(calls[k], calls[k].attempt + 1)]
    /\ UNCHANGED << signal, clientRest >>

\* generationAbort.abort() (line 1737): handleUpstreamAbort of every fetchJson
\* in flight aborts its controller; delay() was given no signal
AbortSignal ==
    /\ ~signal
    /\ ~AbortPending
    /\ signal' = TRUE
    /\ calls' = [k \in Call |->
                    IF calls[k].pc = "fetch"
                    THEN [calls[k] EXCEPT !.pc = "aborting"]
                    ELSE calls[k]]
    /\ UNCHANGED clientRest

\* the generation engine before any run, over an empty run directory
EngineIdle ==
    /\ disk = [ckpt |-> AbsentFile, manifest |-> AbsentManifest]
    /\ ProcessIdle
    /\ runs = 0
    /\ faults = 0
    /\ diskFaults = 0

ClientInit ==
    /\ EngineIdle
    /\ ClientIdle
    /\ PipelineIdle

ClientNext ==
    \/ \E k \in Call : StartCall(k)
    \/ \E k \in Call : HttpReturn(k)
    \/ \E k \in Call, error \in HttpErrors : HttpError(k, error)
    \/ \E k \in Call : HttpTimeout(k)
    \/ \E k \in Call : FetchAborted(k)
    \/ \E k \in Call : BackoffElapsed(k)
    \/ AbortSignal

ClientSpec == ClientInit /\ [][ClientNext]_vars

ClientTypeOK ==
    /\ signal \in BOOLEAN
    /\ \A k \in Call :
          /\ calls[k].pc \in {"new", "fetch", "aborting", "backoff",
                              "returned", "thrown"}
          /\ calls[k].attempt \in 0..MaxAttempts
          /\ calls[k].requests \in 0..MaxAttempts
          /\ calls[k].error \in HttpErrors \cup {NoError, TimeoutError,
                                                 AbortError}

(* --------------------------- extraction cache -------------------------- *)

\* the input file as stat() shows it: the same export, and the same export
\* after it was replaced by a longer one
CacheSources ==
    {[path |-> "export.json", size |-> s, mtime |-> s] : s \in 1..NumSources}

\* the models ensure() is asked for; no conversation of the inputs belongs
\* to the third
CacheModels == {"gpt-4o", "gpt 4", "o1"}

\* sha1 over the resolved path, the size and the truncated mtime (lines
\* 791-803): the digest stands for its input, no two inputs collide
sourceFingerprint(source) == <<source.path, source.size, source.mtime>>

\* sanitizeFileStem and sanitizeFilename on the model names: every run of
\* characters outside [A-Za-z0-9_.-] becomes one underscore
sanitizeFileStem(value) == IF value = "gpt 4" THEN "gpt_4" ELSE value

\* the primary model of the i-th conversation of the input
ConversationModel(source, i) ==
    IF (i + source.size) % 2 = 0 THEN "gpt-4o" ELSE "gpt 4"

\* the conversations extractByModels writes for `model` when it runs to
\* its end
CompleteExtraction(source, model) ==
    {i \in 1..NumSourceConv : ConversationModel(source, i) = model}

\* model directories under <cacheRoot>/model_exports of every fingerprint
CacheKeys ==
    {<<sourceFingerprint(source), sanitizeFileStem(model)>> :
        source \in CacheSources, model \in CacheModels}

CacheKey(c) == <<sourceFingerprint(c.source), sanitizeFileStem(c.model)>>

NoResult == [status |-> "none", reused |-> FALSE, extracted |-> 0, files |-> {}]

\* an ensure() that never finds an extraction to reuse
reusableNever(fileNames) == FALSE

\* lines 832-836: a model directory with at least one .jsonl file is reused
reusable(fileNames) == fileNames # {}

\* an empty cache root and no ensure() under way
CacheInit ==
    cache = [pc |-> "idle",
             source |-> CHOOSE source \in CacheSources : source.size = 1,
             model |-> "o1",
             cursor |-> 0,
             extracted |-> 0,
             reused |-> FALSE,
             dirs |-> [key \in CacheKeys |-> {}],
             manifest |-> {},
             completed |-> {},
             priorCompleted |-> FALSE,
             filesBefore |-> {},
             result |-> NoResult]

\* ensureExtractionCache up to the extraction or the manifest (lines
\* 813-838)
Ensure(source, model) ==
    /\ cache.pc = "idle"
    /\ LET key == <<sourceFingerprint(source), sanitizeFileStem(model)>>
           fileNames == cache.dirs[key]
           reusedExtraction == reusable(fileNames)
       IN  cache' = [cache EXCEPT
                !.pc = IF reusedExtraction THEN "manifest" ELSE "extracting",
                !.source = source,
                !.model = model,
                !.cursor = 0,
                !.extracted = 0,
                !.reused = reusedExtraction,
                !.priorCompleted =
                    <<sourceFingerprint(source), model>> \in cache.completed,
                !.filesBefore = fileNames,
                !.result = NoResult]
    /\ UNCHANGED cacheRest

\* one iteration of the loop of extractByModels (extraction.ts lines
\* 196-252): a conversation of the model is written to its directory
ExtractNext ==
    /\ cache.pc = "extracting"
    /\ cache.cursor < NumSourceConv
    /\ LET i == cache.cursor + 1
           matched == ConversationModel(cache.source, i) = cache.model
       IN  cache' = [cache EXCEPT
                !.cursor = i,
                !.extracted = IF matched THEN @ + 1 ELSE @,
                !.dirs[CacheKey(cache)] = IF matched THEN @ \cup {i} ELSE @]
    /\ UNCHANGED cacheRest

\* extractByModels has returned (lines 848-858): without a model directory
\* or a file ensure() throws
ExtractEnd ==
    /\ cache.pc = "extracting"
    /\ cache.cursor = NumSourceConv
    /\ cache' =
          IF cache.dirs[CacheKey(cache)] = {}
          THEN [cache EXCEPT !.pc = "idle", !.result.status = "failed"]
          ELSE [cache EXCEPT !.pc = "manifest", !.reused = FALSE]
    /\ UNCHANGED cacheRest

\* lines 860-912: the entry of the model is written to the manifest and
\* ensure() returns
WriteCacheManifest ==
    /\ cache.pc = "manifest"
    /\ cache' = [cache EXCEPT
          !.pc = "idle",
          !.manifest = @ \cup {CacheKey(cache)},
          !.completed =
              @ \cup {<<sourceFingerprint(cache.source), cache.model>>},
          !.result = [status |-> "returned",
                      reused |-> cache.reused,
                      extracted |-> cache.extracted,
                      files |-> cache.dirs[CacheKey(cache)]]]
    /\ UNCHANGED cacheRest

\* the process ends while ensure() is under way: the files written so far
\* stay in the cache
CacheCrash ==
    /\ cache.pc \in {"extracting", "manifest"}
    /\ cache' = [cache EXCEPT !.pc = "idle", !.result = NoResult]
    /\ UNCHANGED cacheRest

CacheSpecInit ==
    /\ EngineIdle
    /\ ClientIdle
    /\ CacheInit
    /\ streamer = NoStreamer
    /\ archive = NoArchive
    /\ extraction = NoExtraction
    /\ chooser = NoChooser
    /\ ToolsIdle

CacheNext ==
    \/ \E source \in CacheSources, model \in CacheModels :
          Ensure(source, model)
    \/ ExtractNext
    \/ ExtractEnd
    \/ WriteCacheManifest
    \/ CacheCrash

CacheSpec == CacheSpecInit /\ [][CacheNext]_vars

CacheTypeOK ==
    /\ cache.pc \in {"idle", "extracting", "manifest"}
    /\ cache.cursor \in 0..NumSourceConv
    /\ cache.manifest \subseteq CacheKeys
    /\ \A key \in CacheKeys : cache.dirs[key] \subseteq 1..NumSourceConv

(* --------------------------- JSON array streamer ----------------------- *)

\* characters of the inputs: a text is a sequence of one-character strings
Quote == "\""

Backslash == "\\"

\* objects that can be elements of the array: {}, {"a":1}, {"}{":"]"},
\* {"\"":1}, {"\\":1}, {"a":[{}]}
ObjectTexts ==
    {<<"{", "}">>,
     <<"{", Quote, "a", Quote, ":", "1", "}">>,
     <<"{", Quote, "}", "{", Quote, ":", Quote, "]", Quote, "}">>,
     <<"{", Quote, Backslash, Quote, Quote, ":", "1", "}">>,
     <<"{", Quote, Backslash, Backslash, Quote, ":", "1", "}">>,
     <<"{", Quote, "a", Quote, ":", "[", "{", "}", "]", "}">>}

RECURSIVE JoinItems(_, _)
\* the texts of `items` with `separator` between them
JoinItems(items, separator) ==
    IF items = << >> THEN << >>
    ELSE IF Len(items) = 1 THEN items[1]
    ELSE items[1] \o separator \o JoinItems(Tail(items), separator)

\* the text of the array of `items`, compact or with white space around
\* every bracket and comma
ArrayText(items, spaced) ==
    IF spaced
    THEN <<" ", "[", " ">> \o JoinItems(items, <<" ", ",", " ">>)
             \o <<" ", "]", " ">>
    ELSE <<"[">> \o JoinItems(items, <<",">>) \o <<"]">>

\* well-formed arrays of at most MaxObjects objects
WellFormedInputs ==
    {[kind |-> "array_of_objects",
      elements |-> items,
      text |-> ArrayText(items, spaced)] :
        items \in UNION {[1..n -> ObjectTexts] : n \in 0..MaxObjects},
        spaced \in BOOLEAN}

\* inputs whose top-level value is no array: nothing, white space, an
\* object, a number, a string
NotArrayTexts ==
    {<< >>,
     <<" ">>,
     <<"{", Quote, "a", Quote, ":", "1", "}">>,
     <<"1">>,
     <<Quote, "a", Quote>>}

\* arrays with an element that is no object: [1], [{},1], ["a"], [[1]],
\* [{},[{}]], [a] (a literal such as null), [{},a]
NonObjectElementTexts ==
    {<<"[", "1", "]">>,
     <<"[", "{", "}", ",", "1", "]">>,
     <<"[", Quote, "a", Quote, "]">>,
     <<"[", "[", "1", "]", "]">>,
     <<"[", "{", "}", ",", "[", "{", "}", "]", "]">>,
     <<"[", "a", "]">>,
     <<"[", "{", "}", ",", "a", "]">>}

MalformedInputs ==
    {[kind |-> "not_an_array", elements |-> << >>, text |-> text] :
        text \in NotArrayTexts}
    \cup {[kind |-> "non_object_element", elements |-> << >>, text |-> text] :
        text \in NonObjectElementTexts}

StreamInputs == WellFormedInputs \cup MalformedInputs

\* isWhitespace (lines 187-189); the inputs hold no \n, \r or \t
isWhitespace(ch) == ch \in {" ", "\n", "\r", "\t"}

RECURSIVE skipWhitespace(_, _)
skipWhitespace(s, i) ==
    IF i <= Len(s) /\ isWhitespace(s[i]) THEN skipWhitespace(s, i + 1) ELSE i

RECURSIVE endOfString(_, _)
\* JSON.parse on a string whose opening quote is before position i: the
\* position after its closing quote, 0 when the text is no JSON
endOfString(s, i) ==
    IF i > Len(s) THEN 0
    ELSE IF s[i] = Quote THEN i + 1
    ELSE IF s[i] = Backslash
         THEN IF i + 1 <= Len(s) /\ s[i + 1] \in {Quote, Backslash}
              THEN endOfString(s, i + 2) ELSE 0
    ELSE endOfString(s, i + 1)

RECURSIVE endOfValue(_, _)
RECURSIVE endOfMembers(_, _)
RECURSIVE endOfItems(_, _)

\* JSON.parse on the value that starts at or after position i: the
\* position after it, 0 when the text is no JSON
endOfValue(s, i) ==
    LET j == skipWhitespace(s, i) IN
    IF j > Len(s) THEN 0
    ELSE IF s[j] = "{" THEN
        LET k == skipWhitespace(s, j + 1) IN
        IF k <= Len(s) /\ s[k] = "}" THEN k + 1 ELSE endOfMembers(s, k)
    ELSE IF s[j] = "[" THEN
        LET k == skipWhitespace(s, j + 1) IN
        IF k <= Len(s) /\ s[k] = "]" THEN k + 1 ELSE endOfItems(s, k)
    ELSE IF s[j] = Quote THEN endOfString(s, j + 1)
    ELSE IF s[j] = "1" THEN j + 1
    ELSE 0

\* the members of an object from the key at position i to the closing brace
endOfMembers(s, i) ==
    IF i > Len(s) \/ s[i] # Quote THEN 0
    ELSE LET a == endOfString(s, i + 1) IN
         IF a = 0 THEN 0
         ELSE LET b == skipWhitespace(s, a) IN
              IF b > Len(s) \/ s[b] # ":" THEN 0
              ELSE LET c == endOfValue(s, b + 1) IN
                   IF c = 0 THEN 0
                   ELSE LET d == skipWhitespace(s, c) IN
                        IF d > Len(s) THEN 0
                        ELSE IF s[d] = "}" THEN d + 1
                        ELSE IF s[d] = ","
                             THEN endOfMembers(s, skipWhitespace(s, d + 1))
                        ELSE 0

\* the items of an array from the value at position i to the closing bracket
endOfItems(s, i) ==
    LET c == endOfValue(s, i) IN
    IF c = 0 THEN 0
    ELSE LET d == skipWhitespace(s, c) IN
         IF d > Len(s) THEN 0
         ELSE IF s[d] = "]" THEN d + 1
         ELSE IF s[d] = "," THEN endOfItems(s, d + 1)
         ELSE 0

\* JSON.parse(jsonText) of line 124: it throws, or returns a value that is
\* an object, an array or neither; an object is known by its text
JSONparse(jsonText) ==
    LET end == endOfValue(jsonText, 1)
        first == jsonText[skipWhitespace(jsonText, 1)]
    IN  IF end = 0 \/ skipWhitespace(jsonText, end) # Len(jsonText) + 1
        THEN [kind |-> "throws", value |-> << >>]
        ELSE IF first = "{" THEN [kind |-> "object", value |-> jsonText]
        ELSE IF first = "[" THEN [kind |-> "array", value |-> jsonText]
        ELSE [kind |-> "scalar", value |-> jsonText]

\* the scanner before the first chunk (lines 32-41)
NewScanner ==
    [buffer |-> << >>, index |-> 0, started |-> FALSE, finished |-> FALSE,
     capturing |-> FALSE, tokenStart |-> 0, depth |-> 0, inString |-> FALSE,
     escaped |-> FALSE, parsed |-> << >>, error |-> "none"]

\* a mutant of startsEscape: a backslash in a string escapes nothing
startsEscapeNever(ch) == FALSE

\* line 102: a backslash in a string escapes the character after it
startsEscape(ch) == ch = Backslash

RECURSIVE scanBuffer(_)
\* the while loop of flushParsed (lines 46-139) from scanner state st; the
\* index counts the characters before the current one, as in the source
scanBuffer(st) ==
    IF st.error # "none" \/ st.index >= Len(st.buffer) THEN st
    ELSE
    LET ch == st.buffer[st.index + 1]
        next == [st EXCEPT !.index = @ + 1]
    IN
    IF ~st.started THEN
        IF isWhitespace(ch) THEN scanBuffer(next)
        ELSE IF ch # "[" THEN [st EXCEPT !.error = "Expected '[' at top level"]
        ELSE scanBuffer([next EXCEPT !.started = TRUE])
    ELSE IF st.finished THEN
        IF ~isWhitespace(ch)
        THEN [st EXCEPT !.error = "Unexpected content after closing JSON array"]
        ELSE scanBuffer(next)
    ELSE IF ~st.capturing THEN
        IF isWhitespace(ch) \/ ch = "," THEN scanBuffer(next)
        ELSE IF ch = "]" THEN scanBuffer([next EXCEPT !.finished = TRUE])
        ELSE IF ch \notin {"{", "["}
        THEN [st EXCEPT !.error = "Expected JSON object item at array level"]
        ELSE scanBuffer([next EXCEPT !.capturing = TRUE,
                                     !.tokenStart = st.index,
                                     !.depth = 1,
                                     !.inString = FALSE,
                                     !.escaped = FALSE])
    ELSE IF st.inString THEN
        IF st.escaped THEN scanBuffer([next EXCEPT !.escaped = FALSE])
        ELSE IF startsEscape(ch) THEN scanBuffer([next EXCEPT !.escaped = TRUE])
        ELSE IF ch = Quote THEN scanBuffer([next EXCEPT !.inString = FALSE])
        ELSE scanBuffer(next)
    ELSE IF ch = Quote THEN scanBuffer([next EXCEPT !.inString = TRUE])
    ELSE
    LET depth == IF ch \in {"{", "["} THEN st.depth + 1
                 ELSE IF ch \in {"}", "]"} THEN st.depth - 1
                 ELSE st.depth
        jsonText == SubSeq(st.buffer, st.tokenStart + 1, st.index + 1)
        item == JSONparse(jsonText)
    IN
    IF depth # 0 THEN scanBuffer([next EXCEPT !.depth = depth])
    ELSE IF item.kind = "throws" THEN [st EXCEPT !.error = "SyntaxError"]
    ELSE IF item.kind # "object"
    THEN [st EXCEPT !.error = "Top-level array item is not an object"]
    ELSE scanBuffer([st EXCEPT !.parsed = Append(@, item.value),
                               !.buffer = SubSeq(st.buffer, st.index + 2,
                                                 Len(st.buffer)),
                               !.index = 0,
                               !.capturing = FALSE,
                               !.tokenStart = 0,
                               !.depth = 0])

\* a mutant of dropConsumed: the scanned text stays in the buffer
keepConsumed(st) == st

\* lines 141-148: after the loop the buffer keeps the text from the start
\* of the object being captured, or drops all the text it has scanned
dropConsumed(st) ==
    IF st.capturing /\ st.tokenStart > 0
    THEN [st EXCEPT !.buffer = SubSeq(st.buffer, st.tokenStart + 1,
                                      Len(st.buffer)),
                    !.index = @ - st.tokenStart,
                    !.tokenStart = 0]
    ELSE IF ~st.capturing /\ st.index > 0
    THEN [st EXCEPT !.buffer = SubSeq(st.buffer, st.index + 1, Len(st.buffer)),
                    !.index = 0]
    ELSE st

\* a mutant of endOfInputError: the end of the input is never an error
endOfInputAccepted(st) == "none"

\* lines 150-160: the error that flushParsed(true) throws at the end of
\* the input
endOfInputError(st) ==
    IF ~st.started THEN "Input is not a JSON array"
    ELSE IF st.capturing THEN "Unexpected EOF while parsing JSON object"
    ELSE IF ~st.finished
    THEN "Unexpected EOF while parsing top-level JSON array"
    ELSE "none"

\* flushParsed(isFinal) (lines 43-163): the objects it returns are in
\* `parsed`; when it throws, `error` names the exception and no object of
\* this call reaches the consumer
flushParsed(st, isFinal) ==
    LET scanned == scanBuffer([st EXCEPT !.parsed = << >>])
        kept == dropConsumed(scanned)
    IN  IF scanned.error # "none" THEN scanned
        ELSE IF isFinal THEN [kept EXCEPT !.error = endOfInputError(kept)]
        ELSE kept

\* the streamer over one input, before its first chunk: `pos` characters
\* of the input have been read, `yielded` are the objects handed to the
\* consumer, `chunk` is the length of the last chunk, the cut flags
\* remember where chunk boundaries have fallen
StreamerStart(input) ==
    [pc |-> "reading", input |-> input, pos |-> 0, scanner |-> NewScanner,
     yielded |-> << >>, chunk |-> 0, cutInString |-> FALSE,
     cutEscaped |-> FALSE, cutNested |-> FALSE]

\* one round of the for-await loop (lines 167-177): the next n characters
\* of the input arrive as one chunk, are added to the buffer and scanned;
\* the objects found are yielded
ReadChunk(n) ==
    /\ streamer.pc = "reading"
    /\ n \in 1..(Len(streamer.input.text) - streamer.pos)
    /\ LET chunk == SubSeq(streamer.input.text, streamer.pos + 1,
                           streamer.pos + n)
           st == flushParsed([streamer.scanner EXCEPT !.buffer = @ \o chunk],
                             FALSE)
       IN  streamer' =
               [streamer EXCEPT
                   !.pc = IF st.error # "none" THEN "failed" ELSE "reading",
                   !.pos = @ + n,
                   !.chunk = n,
                   !.scanner = st,
                   !.yielded = IF st.error # "none" THEN @ ELSE @ \o st.parsed,
                   !.cutInString = @ \/ (st.error = "none" /\ st.inString),
                   !.cutEscaped = @ \/ (st.error = "none" /\ st.inString
                                            /\ st.escaped),
                   !.cutNested = @ \/ (st.error = "none" /\ st.capturing
                                           /\ st.depth > 1)]
    /\ UNCHANGED streamerRest

\* the readable ends after the characters read so far (lines 179-183): the
\* input is the text up to `pos`, and flushParsed(true) has the last word
EndOfStream ==
    /\ streamer.pc = "reading"
    /\ LET st == flushParsed(streamer.scanner, TRUE)
       IN  streamer' =
               [streamer EXCEPT
                   !.pc = IF st.error # "none" THEN "failed" ELSE "ended",
                   !.scanner = st,
                   !.yielded = IF st.error # "none" THEN @ ELSE @ \o st.parsed]
    /\ UNCHANGED streamerRest

\* the text the streamer has been given
StreamedText == SubSeq(streamer.input.text, 1, streamer.pos)

StreamSpecInit ==
    /\ EngineIdle
    /\ ClientIdle
    /\ cache = NoCache
    /\ archive = NoArchive
    /\ extraction = NoExtraction
    /\ chooser = NoChooser
    /\ ToolsIdle
    /\ streamer \in {StreamerStart(input) : input \in StreamInputs}

StreamNext ==
    \/ \E n \in 1..Len(streamer.input.text) : ReadChunk(n)
    \/ EndOfStream

StreamSpec == StreamSpecInit /\ [][StreamNext]_vars

(* ------------------------------ ZIP input ------------------------------ *)

\* file names of archive entries, as path segments and the separator
\* between them
EntryNames ==
    {[segments |-> <<"conversations.json">>, separator |-> "/"],
     [segments |-> <<"export", "Conversations.JSON">>, separator |-> "\\"],
     [segments |-> <<"user.json">>, separator |-> "/"],
     [segments |-> <<"conversations.json", "notes.txt">>, separator |-> "/"]}

\* archives of at most MaxEntries entries
Archives == UNION {[1..n -> EntryNames] : n \in 0..MaxEntries}

\* String.prototype.toLowerCase on the base names of EntryNames
toLowerCase(name) ==
    IF name = "Conversations.JSON" THEN "conversations.json" ELSE name

\* lines 82-84: backslashes become slashes, the base name is the last
\* segment, and it is compared in lower case with conversations.json
isConversationsJson(fileName) ==
    toLowerCase(fileName.segments[Len(fileName.segments)])
        = "conversations.json"

\* a mutant of closesArchive: only the end of the stream closes the archive
closesArchiveAtEnd(event) == event = "end"

\* lines 113-115: the stream events that closeOnce listens to
closesArchive(event) == event \in {"end", "close", "error"}

\* closeZip (lines 55-61) on handle h
closeZip(h) == "closed"

\* closeOnce (lines 105-111) when the stream emits `event`
closeOnce(a, event) ==
    IF closesArchive(event) /\ ~a.closed
    THEN [a EXCEPT !.closed = TRUE, !.handle = closeZip(@)]
    ELSE a

\* fail (lines 63-71): the first failure removes the listeners, closes the
\* archive and rejects the promise
fail(a, error) ==
    IF a.settled THEN a
    ELSE [a EXCEPT !.settled = TRUE,
                   !.listening = FALSE,
                   !.handle = closeZip(@),
                   !.promise = "rejected",
                   !.path = error]

\* openConversationsJsonStreamFromZip(zipPath) is called
ArchiveStart(entries) ==
    [pc |-> "opening", entries |-> entries, cursor |-> 1, handle |-> "none",
     settled |-> FALSE, listening |-> FALSE, promise |-> "pending",
     stream |-> "none", closed |-> FALSE, reads |-> 0, path |-> "none"]

\* openZipFile (lines 134-144) resolves: the listeners are attached and the
\* first entry is asked for (lines 127-130)
ZipOpened ==
    /\ archive.pc = "opening"
    /\ archive' = [archive EXCEPT !.pc = "scanning",
                                  !.handle = "open",
                                  !.listening = TRUE]
    /\ UNCHANGED archiveRest

\* openZipFile rejects: there is no archive handle
ZipOpenFailed ==
    /\ archive.pc = "opening"
    /\ archive' = [archive EXCEPT !.pc = "over",
                                  !.promise = "rejected",
                                  !.path = "open failed"]
    /\ UNCHANGED archiveRest

\* onEntry (lines 81-119): another entry is asked for, or the entry's
\* stream is asked for
OnEntry ==
    /\ archive.pc = "scanning"
    /\ archive.listening
    /\ archive.cursor <= Len(archive.entries)
    /\ archive' =
           IF isConversationsJson(archive.entries[archive.cursor])
           THEN [archive EXCEPT !.pc = "openingEntry"]
           ELSE [archive EXCEPT !.cursor = @ + 1]
    /\ UNCHANGED archiveRest

\* onEnd (lines 77-79): the archive has no more entries
OnEnd ==
    /\ archive.pc = "scanning"
    /\ archive.listening
    /\ archive.cursor > Len(archive.entries)
    /\ archive' = [fail(archive, "no conversations.json") EXCEPT !.pc = "over"]
    /\ UNCHANGED archiveRest

\* onError (lines 73-75): the archive reports an error while an entry is
\* read or opened
OnError ==
    /\ archive.pc \in {"scanning", "openingEntry"}
    /\ archive.listening
    /\ archive' = [fail(archive, "archive error") EXCEPT
                       !.pc = IF archive.pc = "scanning" THEN "over" ELSE @]
    /\ UNCHANGED archiveRest

\* the callback of openReadStream with an error (lines 90-93)
EntryOpenFailed ==
    /\ archive.pc = "openingEntry"
    /\ archive' = [fail(archive, "entry open failed") EXCEPT !.pc = "over"]
    /\ UNCHANGED archiveRest

\* the callback of openReadStream with a stream (lines 95-117): after a
\* failure the stream is destroyed and the archive closed, otherwise the
\* stream gets its listeners and resolves the promise
EntryOpened ==
    /\ archive.pc = "openingEntry"
    /\ archive' =
           IF archive.settled
           THEN [archive EXCEPT !.pc = "over",
                                !.stream = "destroyed",
                                !.handle = closeZip(@)]
           ELSE [archive EXCEPT !.pc = "streaming",
                                !.settled = TRUE,
                                !.listening = FALSE,
                                !.promise = "resolved",
                                !.stream = "open"]
    /\ UNCHANGED archiveRest

\* iterConversations reads one chunk of the entry through the streamer
ReadEntryChunk ==
    /\ archive.pc = "streaming"
    /\ archive.stream = "open"
    /\ archive.reads < MaxReads
    /\ archive' = [archive EXCEPT !.reads = @ + 1]
    /\ UNCHANGED archiveRest

\* the stream has given all its chunks and emits `end`
StreamEnd ==
    /\ archive.pc = "streaming"
    /\ archive.stream = "open"
    /\ archive.reads = MaxReads
    /\ archive' = [closeOnce(archive, "end") EXCEPT !.stream = "ended",
                                                    !.path = "end"]
    /\ UNCHANGED archiveRest

\* the stream emits `error`
StreamError ==
    /\ archive.pc = "streaming"
    /\ archive.stream = "open"
    /\ archive' = [closeOnce(archive, "error") EXCEPT !.stream = "errored",
                                                      !.path = "error"]
    /\ UNCHANGED archiveRest

\* the finally block of iterConversations (extraction.ts lines 303-305):
\* the consumer has stopped, the streamer has failed or the stream is
\* over, and the stream is destroyed
DestroyStream ==
    /\ archive.pc = "streaming"
    /\ archive.stream \in {"open", "ended", "errored"}
    /\ archive' = [archive EXCEPT
                       !.stream = "destroyed",
                       !.path = IF archive.stream = "open" THEN "destroy"
                                ELSE @]
    /\ UNCHANGED archiveRest

\* a destroyed stream emits `close`
StreamClose ==
    /\ archive.pc = "streaming"
    /\ archive.stream = "destroyed"
    /\ archive' = [closeOnce(archive, "close") EXCEPT !.pc = "over",
                                                      !.stream = "closed"]
    /\ UNCHANGED archiveRest

ZipSpecInit ==
    /\ EngineIdle
    /\ ClientIdle
    /\ cache = NoCache
    /\ streamer = NoStreamer
    /\ extraction = NoExtraction
    /\ chooser = NoChooser
    /\ ToolsIdle
    /\ archive \in {ArchiveStart(entries) : entries \in Archives}

ZipNext ==
    \/ ZipOpened
    \/ ZipOpenFailed
    \/ OnEntry
    \/ OnEnd
    \/ OnError
    \/ EntryOpenFailed
    \/ EntryOpened
    \/ ReadEntryChunk
    \/ StreamEnd
    \/ StreamError
    \/ DestroyStream
    \/ StreamClose

ZipSpec == ZipSpecInit /\ [][ZipNext]_vars

(* --------------------------- choosePrimaryModel ------------------------ *)

\* model names of the messages of a conversation
ModelNames == {"gpt-4o", "gpt-4o-mini", "gpt-4.1", "o1"}

\* the characters of a model name
Spell(model) ==
    CASE model = "gpt-4o" -> <<"g", "p", "t", "-", "4", "o">>
      [] model = "gpt-4o-mini" ->
             <<"g", "p", "t", "-", "4", "o", "-", "m", "i", "n", "i">>
      [] model = "gpt-4.1" -> <<"g", "p", "t", "-", "4", ".", "1">>
      [] model = "o1" -> <<"o", "1">>

\* the characters of ModelNames in the order of the collation that
\* String.prototype.localeCompare applies: punctuation, digits, letters
CollationOrder == <<"-", ".", "1", "4", "g", "i", "m", "n", "o", "p", "t">>

CollationRank ==
    [ch \in Range(CollationOrder) |->
        CHOOSE i \in 1..Len(CollationOrder) : CollationOrder[i] = ch]

RECURSIVE compareFrom(_, _, _, _)
\* the comparison of the character sequences a and b from position i on
\* by the rank of their characters: -1, 0 or 1; a prefix comes first
compareFrom(rank, a, b, i) ==
    IF i > Len(a) /\ i > Len(b) THEN 0
    ELSE IF i > Len(a) THEN -1
    ELSE IF i > Len(b) THEN 1
    ELSE IF rank[a[i]] < rank[b[i]] THEN -1
    ELSE IF rank[a[i]] > rank[b[i]] THEN 1
    ELSE compareFrom(rank, a, b, i + 1)

\* model.localeCompare(best) of line 277
localeCompare(model, best) ==
    compareFrom(CollationRank, Spell(model), Spell(best), 1)

\* counts.get(model) ?? 0 (lines 268, 271)
countOf(counts, model) ==
    IF model \in DOMAIN counts THEN counts[model] ELSE 0

\* a mutant of replacesBest: a tie never replaces the best model
replacesBestOnHigherCount(count, bestCount, model, best) == count > bestCount

\* lines 272-280: the model replaces the best one when it has more
\* messages, or as many and a name that compares greater
replacesBest(count, bestCount, model, best) ==
    \/ count > bestCount
    \/ count = bestCount /\ localeCompare(model, best) > 0

\* lists of different model names, in every order
ModelLists ==
    {models \in
         UNION {[1..n -> ModelNames] : n \in 1..Cardinality(ModelNames)} :
        \A i, j \in DOMAIN models : i # j => models[i] # models[j]}

\* message counts of some of the model names
ModelCounts ==
    UNION {[names -> 1..MaxCount] : names \in SUBSET ModelNames}

\* choosePrimaryModel(models, counts) is called
ChooserStart(models, counts) ==
    [pc |-> "called", models |-> models, counts |-> counts, next |-> 1,
     best |-> "", bestCount |-> 0, result |-> ""]

\* lines 262-268: the first model is the best one so far
ChooseFirst ==
    /\ chooser.pc = "called"
    /\ chooser' = [chooser EXCEPT
                       !.pc = "comparing",
                       !.best = chooser.models[1],
                       !.bestCount = countOf(chooser.counts, chooser.models[1]),
                       !.next = 2]
    /\ UNCHANGED chooserRest

\* one round of the loop over models.slice(1) (lines 270-281)
CompareModel ==
    /\ chooser.pc = "comparing"
    /\ chooser.next <= Len(chooser.models)
    /\ LET model == chooser.models[chooser.next]
           count == countOf(chooser.counts, model)
       IN  chooser' =
               IF replacesBest(count, chooser.bestCount, model, chooser.best)
               THEN [chooser EXCEPT !.best = model,
                                    !.bestCount = count,
                                    !.next = @ + 1]
               ELSE [chooser EXCEPT !.next = @ + 1]
    /\ UNCHANGED chooserRest

\* line 283: the best model is returned
ReturnBest ==
    /\ chooser.pc = "comparing"
    /\ chooser.next > Len(chooser.models)
    /\ chooser' = [chooser EXCEPT !.pc = "returned", !.result = chooser.best]
    /\ UNCHANGED chooserRest

ChooseSpecInit ==
    /\ EngineIdle
    /\ ClientIdle
    /\ cache = NoCache
    /\ streamer = NoStreamer
    /\ archive = NoArchive
    /\ extraction = NoExtraction
    /\ ToolsIdle
    /\ chooser \in {ChooserStart(models, counts) :
                        models \in ModelLists, counts \in ModelCounts}

ChooseNext ==
    \/ ChooseFirst
    \/ CompareModel
    \/ ReturnBest

ChooseSpec == ChooseSpecInit /\ [][ChooseNext]_vars

(* ------------------------------ extraction ----------------------------- *)

\* conversations of an input: `shape` says whether the object has a
\* mapping object, a chat_messages array or neither; `id` is its
\* conversation_id or uuid; `model` is the model of its assistant
\* messages; no message has a time
InputConversations ==
    {[shape |-> "mapping", id |-> id, model |-> model] :
         id \in {"conv/a", "conv?a"}, model \in {"gpt 4", "gpt_4"}}
    \cup {[shape |-> shape, id |-> id, model |-> "none"] :
         shape \in {"chat_messages", "neither"}, id \in {"conv/a", "conv?a"}}

\* inputs of at most MaxConversations conversations
ExtractInputs ==
    UNION {[1..n -> InputConversations] : n \in 0..MaxConversations}

\* detectConversationFormat (lines 286-294)
detectConversationFormat(conversation) ==
    IF conversation.shape = "mapping" THEN "openai"
    ELSE IF conversation.shape = "chat_messages" THEN "anthropic"
    ELSE "unknown"

\* lines 199-201, 152-154: the first format that is not unknown stays
lockFormat(format, detected) ==
    IF format = "unknown" /\ detected # "unknown" THEN detected ELSE format

\* sanitizeFilename (utils.ts lines 46-49) on the ids and model names of
\* the inputs: every run of other characters than letters, digits, `_`,
\* `.` and `-` becomes one `_`
sanitizeFilename(name) ==
    CASE name \in {"conv/a", "conv?a"} -> "conv_a"
      [] name \in {"gpt 4", "gpt_4"} -> "gpt_4"
      [] OTHER -> name

\* buildOpenAiConversationFileBase and buildAnthropicConversationFileBase:
\* the date of the first message, unknown here, and the sanitized id
fileBaseName(conversation) ==
    <<"unknown-date", sanitizeFilename(conversation.id)>>

\* the path <dir>/<dir>_<date>_<id>.jsonl for suffix 1, and
\* <dir>/<dir>_<date>_<id>_<suffix>.jsonl for the others
OutputPath(modelTag, fileBase, suffix) ==
    [dir |-> modelTag, name |-> fileBase, suffix |-> suffix]

\* a mutant of accessible: access() fails for every path
accessibleNever(files, path) == FALSE

\* access(candidate) of uniquePath (utils.ts line 97) succeeds
accessible(files, path) == path \in DOMAIN files

RECURSIVE uniquePath(_, _, _, _)
\* uniquePath (utils.ts lines 89-104): the base path, or the first path
\* with a suffix from 2 on that access() does not find
uniquePath(files, modelTag, fileBase, suffix) ==
    IF accessible(files, OutputPath(modelTag, fileBase, suffix))
    THEN uniquePath(files, modelTag, fileBase, suffix + 1)
    ELSE OutputPath(modelTag, fileBase, suffix)

\* buildUniqueOutputPath (write.js lines 257-269)
buildUniqueOutputPath(files, modelDir, fileBase) ==
    uniquePath(files, sanitizeFilename(modelDir), fileBase, 1)

\* writeJsonl / writeFile on filePath: the file is created or truncated,
\* and `files` keeps every writer of the path
writeConversation(files, filePath, writer) ==
    IF filePath \in DOMAIN files
    THEN [files EXCEPT ![filePath] = Append(@, writer)]
    ELSE [p \in DOMAIN files \cup {filePath} |->
              IF p = filePath THEN <<writer>> ELSE files[p]]

\* output directories before the extraction: empty, or with the files of
\* an earlier extraction
EarlierFiles ==
    {<< >>,
     [p \in {OutputPath("gpt_4", <<"unknown-date", "conv_a">>, 1)} |->
          <<0>>],
     [p \in {OutputPath("claude", <<"unknown-date", "conv_a">>, 1),
             OutputPath("claude", <<"unknown-date", "conv_a">>, 2)} |->
          <<0>>]}

\* one of detectExportFormat, discoverModels and extractByModels is called
ExtractionStart(op, input, models, maxConversations, files) ==
    [pc |-> "iterating", op |-> op, input |-> input, cursor |-> 1,
     models |-> models, maxConversations |-> maxConversations,
     format |-> "unknown", extracted |-> 0, files |-> files,
     emitted |-> << >>, totalConversations |-> 0]

\* detectExportFormat (lines 135-140): the detection of the first
\* conversation is returned, unknown for an empty input
DetectExportFormat ==
    /\ extraction.pc = "iterating"
    /\ extraction.op = "detectExportFormat"
    /\ extraction' =
           [extraction EXCEPT
               !.pc = "returned",
               !.format =
                   IF extraction.input = << >> THEN "unknown"
                   ELSE detectConversationFormat(extraction.input[1]),
               !.cursor = IF extraction.input = << >> THEN @ ELSE @ + 1]
    /\ UNCHANGED extractionRest

\* one round of the loop of discoverModels (lines 149-171)
DiscoverConversation ==
    /\ extraction.pc = "iterating"
    /\ extraction.op = "discoverModels"
    /\ extraction.cursor <= Len(extraction.input)
    /\ LET detected ==
               detectConversationFormat(extraction.input[extraction.cursor])
       IN  extraction' =
               [extraction EXCEPT
                   !.cursor = @ + 1,
                   !.totalConversations = @ + 1,
                   !.format = lockFormat(@, detected)]
    /\ UNCHANGED extractionRest

\* discoverModels returns (lines 173-179)
DiscoverReturn ==
    /\ extraction.pc = "iterating"
    /\ extraction.op = "discoverModels"
    /\ extraction.cursor > Len(extraction.input)
    /\ extraction' = [extraction EXCEPT !.pc = "returned"]
    /\ UNCHANGED extractionRest

\* one round of the loop of extractByModels (lines 196-251): the format is
\* locked, a vendor-B conversation goes to the directory claude, a
\* vendor-A conversation with a wanted model to the directory of its
\* primary model; the loop ends at maxConversations
ExtractConversation ==
    /\ extraction.pc = "iterating"
    /\ extraction.op = "extractByModels"
    /\ extraction.cursor <= Len(extraction.input)
    /\ LET conversation == extraction.input[extraction.cursor]
           detected == detectConversationFormat(conversation)
           locked == [extraction EXCEPT !.cursor = @ + 1,
                                        !.format = lockFormat(@, detected)]
           modelDir == IF detected = "anthropic" THEN "claude"
                       ELSE conversation.model
           filePath == buildUniqueOutputPath(extraction.files, modelDir,
                                             fileBaseName(conversation))
           written ==
               [locked EXCEPT
                   !.files = writeConversation(@, filePath, extraction.cursor),
                   !.emitted = Append(@, filePath),
                   !.extracted = @ + 1,
                   !.pc = IF extraction.maxConversations > 0
                             /\ extraction.extracted + 1
                                    >= extraction.maxConversations
                          THEN "returned" ELSE @]
       IN  extraction' =
               IF detected = "anthropic" THEN written
               ELSE IF detected # "openai" THEN locked
               ELSE IF extraction.models = {} THEN [locked EXCEPT !.pc = "threw"]
               ELSE IF conversation.model \notin extraction.models THEN locked
               ELSE written
    /\ UNCHANGED extractionRest

\* extractByModels returns after the last conversation (lines 254-258)
ExtractReturn ==
    /\ extraction.pc = "iterating"
    /\ extraction.op = "extractByModels"
    /\ extraction.cursor > Len(extraction.input)
    /\ extraction' = [extraction EXCEPT !.pc = "returned"]
    /\ UNCHANGED extractionRest

ExtractionSpecInit ==
    /\ EngineIdle
    /\ ClientIdle
    /\ cache = NoCache
    /\ streamer = NoStreamer
    /\ archive = NoArchive
    /\ chooser = NoChooser
    /\ ToolsIdle
    /\ extraction \in
           {ExtractionStart(op, input, {}, 0, << >>) :
                op \in {"detectExportFormat", "discoverModels"},
                input \in ExtractInputs}
           \cup {ExtractionStart("extractByModels", input, models, limit,
                                 files) :
                input \in ExtractInputs,
                models \in {{}, {"gpt 4"}, {"gpt 4", "gpt_4"}},
                limit \in {0, 2},
                files \in EarlierFiles}

ExtractionNext ==
    \/ DetectExportFormat
    \/ DiscoverConversation
    \/ DiscoverReturn
    \/ ExtractConversation
    \/ ExtractReturn

ExtractionSpec == ExtractionSpecInit /\ [][ExtractionNext]_vars

(* --------------------------- current-path walk ------------------------- *)

\* node ids of a conversation; 0 stands for no id (null, or no string)
NodeIds == 1..NumNodes

\* what mapping[id] can hold: nothing that is a record, or a node with a
\* parent id and a message of some author role, or no message
MappingEntries ==
    {[present |-> FALSE, parent |-> 0, role |-> "none"]}
    \cup {[present |-> TRUE, parent |-> parent, role |-> role] :
              parent \in {0} \cup NodeIds,
              role \in {"none", "user", "tool"}}

\* the roles asked for
WantedRoles == {"system", "user", "assistant"}

\* getMessageRole (cli.ts lines 446-453) and roles.has(role) (line 434)
isWanted(role) ==
    role \in {"system", "user", "assistant"} /\ role \in WantedRoles

\* a mutant of alreadyVisited: the visited set is never consulted
alreadyVisitedNever(visited, nodeId) == FALSE

\* visited.has(nodeId) of line 424
alreadyVisited(visited, nodeId) == nodeId \in visited

RECURSIVE Reverse(_)
\* Array.prototype.reverse (line 442)
Reverse(s) ==
    IF s = << >> THEN << >> ELSE Append(Reverse(Tail(s)), Head(s))

\* orderOpenAiMessagesByCurrentPath is called (lines 415-422); a message is
\* known by the id of its node
WalkStart(mapping, current) ==
    [pc |-> "walking", mapping |-> mapping, current |-> current,
     nodeId |-> current, visited |-> {}, visits |-> << >>,
     ordered |-> << >>, result |-> << >>]

\* one round of the while loop (lines 424-440)
WalkNode ==
    /\ walk.pc = "walking"
    /\ walk.nodeId # 0
    /\ ~alreadyVisited(walk.visited, walk.nodeId)
    /\ LET node == walk.mapping[walk.nodeId]
       IN  walk' =
               [walk EXCEPT
                   !.visited = @ \cup {walk.nodeId},
                   !.visits = Append(@, walk.nodeId),
                   !.ordered = IF node.present /\ isWanted(node.role)
                               THEN Append(@, walk.nodeId) ELSE @,
                   !.nodeId = IF node.present THEN node.parent ELSE @,
                   !.pc = IF node.present THEN @ ELSE "left"]
    /\ UNCHANGED walkRest

\* the loop is over: by break (line 428), for want of an id or at a node
\* seen before (line 424); the messages are reversed and returned
WalkReturn ==
    /\ \/ walk.pc = "left"
       \/ /\ walk.pc = "walking"
          /\ walk.nodeId = 0 \/ alreadyVisited(walk.visited, walk.nodeId)
    /\ walk' = [walk EXCEPT !.pc = "returned", !.result = Reverse(walk.ordered)]
    /\ UNCHANGED walkRest

WalkSpecInit ==
    /\ EngineIdle
    /\ ClientIdle
    /\ PipelineOff
    /\ sampler = NoSampler
    /\ compaction = NoCompaction
    /\ jobs = NoJobs
    /\ walk \in {WalkStart(mapping, current) :
                     mapping \in [NodeIds -> MappingEntries],
                     current \in {0} \cup NodeIds}

WalkNext ==
    \/ WalkNode
    \/ WalkReturn

WalkSpec == WalkSpecInit /\ [][WalkNext]_vars

(* ------------------------------ sampler -------------------------------- *)

\* a 32-bit unsigned value as its high and low 16-bit halves
Halves(hi, lo) == <<hi, lo>>

\* generationSamplingSeed (lines 2903-2909) of a request without a
\* samplingSeed: -1
NoSeed == Halves(-1, -1)

\* has Math.random as its generator
MathRandom == Halves(-2, -2)

\* samplingSeed values of a request: none, and seeds as 32-bit values
RequestedSeeds ==
    {NoSeed, Halves(0, 0), Halves(20000, 5), Halves(12345, 6789),
     Halves(65535, 65535)}

\* stableHashInt(payload) of deriveDeterministicSamplingSeed (lines
\* 2443-2460): a 32-bit value that the request and the directory fix
DerivedSeed == Halves(40000, 17)

\* a mutant of effectiveSamplingSeed: the requested seed is passed on
effectiveSamplingSeedAsRequested(requested) == requested

\* lines 3717-3720: the requested seed when it is not negative, the
\* derived one otherwise; generationSamplingSeed gives -1 for no seed
effectiveSamplingSeed(requested) ==
    IF requested[1] >= 0 THEN requested ELSE DerivedSeed

\* seedRandom (lines 2223-2229): the value after one call,
\* (value * 1664525 + 1013904223) >>> 0, computed on the halves
\* (1664525 = 25 * 2^16 + 26125, 1013904223 = 15470 * 2^16 + 62303)
nextValue(value) ==
    LET low == value[2] * 26125 + 62303
        high == value[1] * 26125 + value[2] * 25 + 15470 + (low \div 65536)
    IN  Halves(high % 65536, low % 65536)

\* Math.floor(value / 2^32 * n) for a small n
scaled(value, n) ==
    (value[1] * n + ((value[2] * n) \div 65536)) \div 65536

\* value / 2^32 * n is a whole number
scaledIsWhole(value, n) ==
    /\ (value[2] * n) % 65536 = 0
    /\ (value[1] * n + ((value[2] * n) \div 65536)) % 65536 = 0

\* values that Math.random can give: 0, 0.5 and the greatest one below 1
MathRandomValues == {Halves(0, 0), Halves(32768, 0), Halves(65535, 65535)}

\* the values that the next call of random() can return, with the state
\* of the generator after it: one for seedRandom, any for Math.random
randomOutcomes(generator) ==
    IF generator = MathRandom
    THEN {[value |-> v, generator |-> generator] : v \in MathRandomValues}
    ELSE {[value |-> nextValue(generator),
           generator |-> nextValue(generator)]}

\* scored conversation files: assistantChars and assistantTurns, no
\* other turns
FileNames == 1..NumFiles

ScoredSets ==
    [FileNames -> {[assistantChars |-> c, assistantTurns |-> t, turns |-> 0] :
                       c \in {1, 16}, t \in {0, 2}}]

\* the comparator of line 2241: a goes before b
scoredBefore(scored, a, b) ==
    \/ scored[a].assistantChars > scored[b].assistantChars
    \/ /\ scored[a].assistantChars = scored[b].assistantChars
       /\ \/ scored[a].assistantTurns > scored[b].assistantTurns
          \/ /\ scored[a].assistantTurns = scored[b].assistantTurns
             /\ \/ scored[a].turns > scored[b].turns
                \/ scored[a].turns = scored[b].turns /\ a < b

\* [...scored].sort(...) of lines 2241-2246: files are known by the rank
\* of their name
sortScored(scored) ==
    CHOOSE order \in [1..NumFiles -> FileNames] :
        /\ \A i, j \in 1..NumFiles : i < j =>
               scoredBefore(scored, order[i], order[j])

\* Math.sqrt on the assistantChars of ScoredSets
sqrt(n) == CASE n = 1 -> 1 [] n = 16 -> 4

\* the weight of lines 2275-2277; it is a whole number for ScoredSets
weightOf(row) ==
    Max(1, sqrt(Max(1, row.assistantChars)) + (row.assistantTurns \div 2))

RECURSIVE weightSum(_, _, _)
\* the sum of the weights of the first n files of the pool
weightSum(scored, pool, n) ==
    IF n = 0 THEN 0
    ELSE weightSum(scored, pool, n - 1) + weightOf(scored[pool[n]])

\* lines 2278-2287: the index of the first file at which the threshold
\* random() * totalWeight, less the weights so far, is not above 0
weightedIndex(scored, pool, value) ==
    LET total == weightSum(scored, pool, Len(pool))
        whole == scaled(value, total)
        reached(i) ==
            \/ weightSum(scored, pool, i) > whole
            \/ weightSum(scored, pool, i) = whole
                   /\ scaledIsWhole(value, total)
    IN  IF \E i \in 1..Len(pool) : reached(i)
        THEN CHOOSE i \in 1..Len(pool) :
                 reached(i) /\ \A k \in 1..(i - 1) : ~reached(k)
        ELSE Len(pool)

\* pool.splice(index, 1): the pool without the file at position index
splice(pool, index) ==
    SubSeq(pool, 1, index - 1) \o SubSeq(pool, index + 1, Len(pool))

\* the sign of random() - 0.5 for the value that random() returned
comparatorSign(value) ==
    IF value[1] < 32768 THEN -1
    ELSE IF value = Halves(32768, 0) THEN 0
    ELSE 1

RECURSIVE linearInsert(_, _, _, _)
\* insertion of `element` into `prefix` by comparisons from the right:
\* comparefn(prefix[j], element) > 0 moves prefix[j] one place up
linearInsert(prefix, element, j, generator) ==
    IF j = 0 THEN [list |-> <<element>> \o prefix, generator |-> generator]
    ELSE LET value == nextValue(generator)
         IN  IF comparatorSign(value) > 0
             THEN linearInsert(prefix, element, j - 1, value)
             ELSE [list |-> SubSeq(prefix, 1, j) \o <<element>>
                                \o SubSeq(prefix, j + 1, Len(prefix)),
                   generator |-> value]

RECURSIVE binaryInsert(_, _, _, _, _)
\* insertion of `element` into `prefix` by binary search between the
\* positions left and right: comparefn(element, prefix[mid]) < 0 goes left
binaryInsert(prefix, element, left, right, generator) ==
    IF left >= right
    THEN [list |-> SubSeq(prefix, 1, left) \o <<element>>
                       \o SubSeq(prefix, left + 1, Len(prefix)),
          generator |-> generator]
    ELSE LET mid == left + ((right - left) \div 2)
             value == nextValue(generator)
         IN  IF comparatorSign(value) < 0
             THEN binaryInsert(prefix, element, left, mid, value)
             ELSE binaryInsert(prefix, element, mid + 1, right, value)

RECURSIVE sortByRandom(_, _, _, _)
\* [...sorted].sort(() => random() - 0.5) of line 2251 with the seeded
\* generator: the order that such a comparator gives is left to the
\* implementation of sort, here one of two insertion sorts; both make
\* their comparisons in an order that the length of the list fixes
sortByRandom(build, done, rest, generator) ==
    IF rest = << >> THEN done
    ELSE LET step == IF build = "linear"
                     THEN linearInsert(done, Head(rest), Len(done), generator)
                     ELSE binaryInsert(done, Head(rest), 0, Len(done),
                                       generator)
         IN  sortByRandom(build, step.list, Tail(rest), step.generator)

\* the orders that line 2251 can give: one with seedRandom, any with
\* Math.random
shuffleOutcomes(build, sorted, generator) ==
    IF generator = MathRandom
    THEN {order \in [1..Len(sorted) -> Range(sorted)] :
              Range(order) = Range(sorted)}
    ELSE {sortByRandom(build, << >>, sorted, generator)}

\* selectConversationFiles has not been called in this process
NewSelection ==
    [pc |-> "called", generator |-> NoSeed, pool |-> << >>,
     selected |-> << >>, result |-> << >>]

\* two processes are to select from the same scored files with the same
\* request
SamplerStart(scored, mode, sampleLimit, requested, build) ==
    [pc |-> "on", scored |-> scored, mode |-> mode,
     sampleLimit |-> sampleLimit, requested |-> requested, build |-> build,
     runs |-> [r \in 1..2 |-> NewSelection]]

\* selectConversationFiles up to its loops (lines 2231-2264) in process
\* r, with the seed of lines 3717-3720: the sorted files, their shuffle or
\* the first sampleLimit of them are returned, or the pool is set up
BeginSelection(r) ==
    /\ sampler.pc = "on"
    /\ sampler.runs[r].pc = "called"
    /\ LET sorted == sortScored(sampler.scored)
           seed == effectiveSamplingSeed(sampler.requested)
           generator == IF seed[1] >= 0 THEN seed ELSE MathRandom
           whole == sampler.sampleLimit <= 0
                        \/ sampler.sampleLimit >= Len(sorted)
       IN  \E order \in shuffleOutcomes(sampler.build, sorted, generator) :
               sampler' =
                   [sampler EXCEPT !.runs[r] =
                       IF whole /\ sampler.mode = "random-uniform"
                       THEN [@ EXCEPT !.pc = "returned", !.result = order]
                       ELSE IF whole
                       THEN [@ EXCEPT !.pc = "returned", !.result = sorted]
                       ELSE IF sampler.mode = "top"
                       THEN [@ EXCEPT !.pc = "returned",
                                      !.result = SubSeq(sorted, 1,
                                                        sampler.sampleLimit)]
                       ELSE [@ EXCEPT !.pc = "drawing",
                                      !.generator = generator,
                                      !.pool = sorted]]
    /\ UNCHANGED samplerRest

\* one round of the loop of random-uniform (lines 2263-2269) or of
\* weighted-random (lines 2274-2292) in process r
DrawFile(r) ==
    /\ sampler.pc = "on"
    /\ sampler.runs[r].pc = "drawing"
    /\ sampler.runs[r].pool # << >>
    /\ Len(sampler.runs[r].selected) < sampler.sampleLimit
    /\ \E drawn \in randomOutcomes(sampler.runs[r].generator) :
           LET pool == sampler.runs[r].pool
               index == IF sampler.mode = "random-uniform"
                        THEN scaled(drawn.value, Len(pool)) + 1
                        ELSE weightedIndex(sampler.scored, pool, drawn.value)
           IN  sampler' =
                   [sampler EXCEPT !.runs[r] =
                       [@ EXCEPT !.generator = drawn.generator,
                                 !.pool = splice(pool, index),
                                 !.selected = Append(@, pool[index])]]
    /\ UNCHANGED samplerRest

\* the loop is over and the selected files are returned (lines 2270, 2293)
ReturnSelection(r) ==
    /\ sampler.pc = "on"
    /\ sampler.runs[r].pc = "drawing"
    /\ \/ sampler.runs[r].pool = << >>
       \/ Len(sampler.runs[r].selected) >= sampler.sampleLimit
    /\ sampler' = [sampler EXCEPT !.runs[r] =
                       [@ EXCEPT !.pc = "returned",
                                 !.result = sampler.runs[r].selected]]
    /\ UNCHANGED samplerRest

SampleSpecInit ==
    /\ EngineIdle
    /\ ClientIdle
    /\ PipelineOff
    /\ walk = NoWalk
    /\ compaction = NoCompaction
    /\ jobs = NoJobs
    /\ sampler \in
           {SamplerStart(scored, mode, sampleLimit, requested, build) :
                scored \in ScoredSets,
                mode \in {"top", "random-uniform", "weighted-random"},
                sampleLimit \in 0..NumFiles,
                requested \in RequestedSeeds,
                build \in {"linear", "binary"}}

SampleNext ==
    \E r \in 1..2 :
        \/ BeginSelection(r)
        \/ DrawFile(r)
        \/ ReturnSelection(r)

SampleSpec == SampleSpecInit /\ [][SampleNext]_vars

(* ------------------------- memory compaction --------------------------- *)

\* Texts are sequences of characters; "A" and "K" are the upper-case
\* letters, " " is the white space.
lowerChar(c) ==
    CASE c = "A" -> "a"
      [] c = "K" -> "k"
      [] OTHER -> c

\* String.prototype.toLowerCase on a text
lowerText(text) == [i \in DOMAIN text |-> lowerChar(text[i])]

RECURSIVE collapseSpaces(_)
\* text.replace(/\s+/g, " ")
collapseSpaces(text) ==
    IF Len(text) < 2 THEN text
    ELSE IF text[1] = " " /\ text[2] = " " THEN collapseSpaces(Tail(text))
    ELSE << text[1] >> \o collapseSpaces(Tail(text))

RECURSIVE trimStart(_)
trimStart(text) ==
    IF text # << >> /\ text[1] = " " THEN trimStart(Tail(text)) ELSE text

\* String.prototype.trim
trimText(text) == Reverse(trimStart(Reverse(trimStart(text))))

\* normalize of compactMemories (line 2172) and normalizeForDedup of
\* shaping.ts (lines 166-168)
normalizeForDedup(text) == trimText(collapseSpaces(lowerText(text)))

RECURSIVE joinKeys(_)
\* keys.join("|")
joinKeys(keys) ==
    IF keys = << >> THEN << >>
    ELSE IF Len(keys) = 1 THEN keys[1]
    ELSE keys[1] \o << "|" >> \o joinKeys(Tail(keys))

\* toStringArray (lines 2051-2059): the keys trimmed, the empty ones left
\* out
toStringArray(keys) ==
    SelectSeq([i \in DOMAIN keys |-> trimText(keys[i])],
              LAMBDA key : key # << >>)

RECURSIVE uniqueStrings(_)
\* [...new Set(keys)]: the first occurrence of every string, compared as
\* written
uniqueStrings(keys) ==
    IF keys = << >> THEN << >>
    ELSE LET front == uniqueStrings(SubSeq(keys, 1, Len(keys) - 1))
             last == keys[Len(keys)]
         IN  IF last \in Range(front) THEN front ELSE Append(front, last)

RECURSIVE normalizeKeys(_)
\* normalizeKeys of shaping.ts (lines 136-164): the first occurrence of
\* every key, compared in lower case
normalizeKeys(keys) ==
    IF keys = << >> THEN << >>
    ELSE LET front == normalizeKeys(SubSeq(keys, 1, Len(keys) - 1))
             last == trimText(keys[Len(keys)])
         IN  IF last = << >>
                    \/ lowerText(last) \in {lowerText(key) : key \in Range(front)}
             THEN front
             ELSE Append(front, last)

\* the signature of compactMemories (lines 2181, 2185-2187)
memorySignature(content, keys) ==
    normalizeForDedup(content) \o << "|" >>
        \o joinKeys([i \in DOMAIN keys |-> lowerText(keys[i])])

\* the signature of compactMemoryCandidates (shaping.ts lines 43, 46)
entrySignature(content, keys) ==
    normalizeForDedup(content) \o << "|" >> \o joinKeys(normalizeKeys(keys))

\* out.find: the first position of out that matches, or 0
firstWith(out, matches(_)) ==
    IF \E i \in DOMAIN out : matches(out[i])
    THEN CHOOSE i \in DOMAIN out :
             /\ matches(out[i])
             /\ \A j \in 1..(i - 1) : ~matches(out[j])
    ELSE 0

\* the name of a candidate without a name (line 2205)
memoryName(name, position) ==
    IF name = << "", 0 >> THEN << "Memory", position >> ELSE name

\* one round of the loop of compactMemories (lines 2174-2213)
compactOne(out, candidate) ==
    LET content == trimText(candidate.content)
        keys == toStringArray(candidate.keys)
        found == firstWith(out, LAMBDA item :
                     memorySignature(trimText(item.content),
                                     toStringArray(item.keys))
                         = memorySignature(content, keys))
    IN  IF content = << >> \/ keys = << >> THEN out
        ELSE IF found # 0
        THEN [out EXCEPT ![found] =
                 [@ EXCEPT
                     !.keys = uniqueStrings(toStringArray(@) \o keys),
                     !.priority = IF candidate.priority > @
                                  THEN candidate.priority ELSE @,
                     !.content = IF Len(content) > Len(trimText(@))
                                 THEN content ELSE @]]
        ELSE Append(out, [name |-> memoryName(candidate.name, Len(out) + 1),
                          keys |-> keys,
                          content |-> content,
                          priority |-> candidate.priority])

RECURSIVE compactMemories(_)
\* compactMemories (lines 2169-2216); category, sourceConversation and
\* sourceDate of a candidate are left out
compactMemories(candidates) ==
    IF candidates = << >> THEN << >>
    ELSE compactOne(
             compactMemories(SubSeq(candidates, 1, Len(candidates) - 1)),
             candidates[Len(candidates)])

\* one round of the loop of compactMemoryCandidates (shaping.ts lines
\* 34-81); toPriority leaves a whole number as it is
shapeOne(out, candidate) ==
    LET content == trimText(candidate.content)
        keys == normalizeKeys(candidate.keys)
        found == firstWith(out, LAMBDA entry :
                     entrySignature(entry.content, entry.keys)
                         = normalizeForDedup(content) \o << "|" >>
                               \o joinKeys(keys))
    IN  IF content = << >> \/ keys = << >> THEN out
        ELSE IF found # 0
        THEN [out EXCEPT ![found] =
                 [@ EXCEPT
                     !.priority = Max(@, candidate.priority),
                     !.keys = normalizeKeys(@ \o keys),
                     !.content = IF Len(content) > Len(@)
                                 THEN content ELSE @]]
        ELSE Append(out, [name |-> IF candidate.name = << "", 0 >>
                                   THEN << "Memory", 0 >>
                                   ELSE candidate.name,
                          keys |-> keys,
                          content |-> content,
                          priority |-> candidate.priority])

RECURSIVE shapeFrom(_, _, _)
\* the loop of compactMemoryCandidates over the candidates that are left,
\* with its break (shaping.ts lines 82-84) after a push that fills
\* maxEntries
shapeFrom(out, candidates, maxEntries) ==
    IF candidates = << >> THEN out
    ELSE LET next == shapeOne(out, Head(candidates))
         IN  IF Len(next) > Len(out) /\ maxEntries > 0
                    /\ Len(next) >= maxEntries
             THEN next
             ELSE shapeFrom(next, Tail(candidates), maxEntries)

\* compactMemoryCandidates (shaping.ts lines 28-88), the entries of
\* shapeLorebookV3 (lines 90-104)
compactMemoryCandidates(candidates, maxEntries) ==
    shapeFrom(<< >>, candidates, maxEntries)

\* memoryCandidatesFromEntries (lines 2920-2928) for memories without a
\* name and an id
memoryCandidatesFromEntries(memories) ==
    [index \in DOMAIN memories |->
        [name |-> << "Existing Memory", index >>,
         keys |-> memories[index].keys,
         content |-> memories[index].content,
         priority |-> Max(1, 300 - (index - 1))]]

RECURSIVE toMemoryCandidates(_)
\* toMemoryCandidates (lines 2723-2742) for rows without a name that
\* carry keys
toMemoryCandidates(rows) ==
    IF rows = << >> THEN << >>
    ELSE LET out == toMemoryCandidates(SubSeq(rows, 1, Len(rows) - 1))
             row == rows[Len(rows)]
         IN  IF trimText(row.content) = << >> THEN out
             ELSE Append(out, [name |-> << "Memory", Len(out) + 1 >>,
                               keys |-> toStringArray(row.keys),
                               content |-> trimText(row.content),
                               priority |-> row.priority])

\* contents of memories: a text, the same with more white space, the same
\* in upper case, and another text
MemoryContents ==
    {<< "a", " ", "b" >>, << "a", " ", " ", "b" >>, << "A", " ", "b" >>,
     << "c" >>}

\* key lists of memories
MemoryKeyLists ==
    {<< << "K" >> >>, << << "k" >> >>, << << "K" >>, << "k" >> >>,
     << << "d" >> >>}

\* the memories of the card in an append-memories run
ExistingEntries ==
    [keys : MemoryKeyLists, content : MemoryContents]

\* the rows of the memories payload
MemoryRows ==
    [keys : MemoryKeyLists, content : MemoryContents, priority : {50, 400}]

CompactionStart(existingMemories, rows, maxMemories) ==
    [pc |-> "on", stage |-> "called",
     existingMemories |-> existingMemories, rows |-> rows,
     maxMemories |-> maxMemories,
     merged |-> << >>, lorebook |-> << >>,
     remerged |-> << >>, reshaped |-> << >>]

\* lines 3813-3817: the memories of the card and the candidates of the
\* payload are compacted together
MergeMemoryCandidates ==
    /\ compaction.pc = "on"
    /\ compaction.stage = "called"
    /\ compaction' =
           [compaction EXCEPT
               !.stage = "merged",
               !.merged = compactMemories(
                   memoryCandidatesFromEntries(compaction.existingMemories)
                       \o toMemoryCandidates(compaction.rows))]
    /\ UNCHANGED compactionRest

\* lines 3818-3820: no usable memory
ZeroUsableMemories ==
    /\ compaction.pc = "on"
    /\ compaction.stage = "merged"
    /\ compaction.merged = << >>
    /\ compaction' = [compaction EXCEPT !.stage = "failed"]
    /\ UNCHANGED compactionRest

\* lines 3822-3824: the lorebook of at most maxMemories entries
ShapeLorebook ==
    /\ compaction.pc = "on"
    /\ compaction.stage = "merged"
    /\ compaction.merged # << >>
    /\ compaction' =
           [compaction EXCEPT
               !.stage = "shaped",
               !.lorebook = compactMemoryCandidates(compaction.merged,
                                                    compaction.maxMemories)]
    /\ UNCHANGED compactionRest

\* compactMemories and compactMemoryCandidates applied to their own
\* results
CompactAgain ==
    /\ compaction.pc = "on"
    /\ compaction.stage = "shaped"
    /\ compaction' =
           [compaction EXCEPT
               !.stage = "again",
               !.remerged = compactMemories(compaction.merged),
               !.reshaped = compactMemoryCandidates(compaction.lorebook,
                                                    compaction.maxMemories)]
    /\ UNCHANGED compactionRest

CompactSpecInit ==
    /\ EngineIdle
    /\ ClientIdle
    /\ PipelineOff
    /\ walk = NoWalk
    /\ sampler = NoSampler
    /\ jobs = NoJobs
    /\ compaction \in
           {CompactionStart(existingMemories, rows, maxMemories) :
                existingMemories \in
                    UNION {[1..n -> ExistingEntries] : n \in 0..MaxExisting},
                rows \in UNION {[1..n -> MemoryRows] : n \in 0..MaxRows},
                maxMemories \in 1..2}

CompactNext ==
    \/ MergeMemoryCandidates
    \/ ZeroUsableMemories
    \/ ShapeLorebook
    \/ CompactAgain

CompactSpec == CompactSpecInit /\ [][CompactNext]_vars

(* ----------------------------- generate job --------------------------- *)

\* statuses after which a job is over
TerminalStatuses == {"completed", "failed", "cancelled"}

\* updateTrackedJob (lines 587-598): the status is stored and a job event
\* with it is sent to every window
updateTrackedJob(job, status) ==
    [job EXCEPT !.status = status, !.events = Append(@, status)]

\* the finally of extractAndGenerate (lines 1554-1556): the controller of
\* the job is forgotten and the call has settled
settled(job) == [job EXCEPT !.controller = "none", !.pc = "returned"]

\* the catch of extractAndGenerate (lines 1527-1553) with its finally: an
\* abort error under an aborted signal ends the job as cancelled, every
\* other error as failed
catchError(job, error) ==
    settled(updateTrackedJob(job,
        IF error = "abort" /\ job.controller = "aborted"
        THEN "cancelled" ELSE "failed"))

\* extractAndGenerate up to its first await (lines 1331-1345, 1390): the
\* job is created, its AbortController registered and `queued` reported
ExtractAndGenerate(append, outputDir) ==
    /\ jobs.pc = "new"
    /\ jobs' = updateTrackedJob(
                   [jobs EXCEPT !.pc = "queued",
                                !.controller = "live",
                                !.appendMemories = append,
                                !.requestedOutputDir = outputDir],
                   "queued")
    /\ UNCHANGED jobsRest

\* lines 1390-1400: an append run without output directory is reported
\* failed and the call returns before its try, so that its finally does
\* not run; otherwise the extraction cache is prepared
PipelineLoaded ==
    /\ jobs.pc = "queued"
    /\ jobs' = IF jobs.appendMemories /\ ~jobs.requestedOutputDir
               THEN [updateTrackedJob(jobs, "failed") EXCEPT !.pc = "returned"]
               ELSE [updateTrackedJob(jobs, "running") EXCEPT !.pc = "cache"]
    /\ UNCHANGED jobsRest

\* lines 1400-1413: ensureExtractionCache has settled
CacheReady(ok) ==
    /\ jobs.pc = "cache"
    /\ jobs' = IF ok
               THEN [updateTrackedJob(jobs, "running") EXCEPT !.pc = "mkdir"]
               ELSE catchError(jobs, "error")
    /\ UNCHANGED jobsRest

\* lines 1414-1447: the run directory exists; an append run loads the card
\* and the lorebook, and runLiveGeneration is called
DirectoryReady(ok) ==
    /\ jobs.pc = "mkdir"
    /\ jobs' = IF ~ok THEN catchError(jobs, "error")
               ELSE IF jobs.appendMemories
               THEN [updateTrackedJob(jobs, "running") EXCEPT !.pc = "loading"]
               ELSE [updateTrackedJob(jobs, "running")
                         EXCEPT !.pc = "generating"]
    /\ UNCHANGED jobsRest

\* lines 1435-1447 of an append run: the existing outputs are read
ExistingLoaded(ok) ==
    /\ jobs.pc = "loading"
    /\ jobs' = IF ok
               THEN [updateTrackedJob(jobs, "running")
                         EXCEPT !.pc = "generating"]
               ELSE catchError(jobs, "error")
    /\ UNCHANGED jobsRest

\* publishGenerationProgress (lines 1346-1377): every progress event of
\* the engine, those of failCall after a cancellation included (lines
\* 3124-3128), reports the job as running
GenerationProgress ==
    /\ jobs.pc = "generating"
    /\ jobs.progress < MaxProgress
    /\ jobs' = [updateTrackedJob(jobs, "running") EXCEPT !.progress = @ + 1]
    /\ UNCHANGED jobsRest

\* lines 1460-1465: runLiveGeneration returns; the engine checks the
\* signal for the last time at line 3405
GenerationReturns ==
    /\ jobs.pc = "generating"
    /\ jobs' = [updateTrackedJob(jobs, "running") EXCEPT !.pc = "writing"]
    /\ UNCHANGED jobsRest

\* runLiveGeneration throws: the abort error after the signal was aborted,
\* or another error
GenerationThrows(error) ==
    /\ jobs.pc = "generating"
    /\ error = "abort" => jobs.controller = "aborted"
    /\ jobs' = catchError(jobs, error)
    /\ UNCHANGED jobsRest

\* lines 1462-1526: the artifacts are written and the job is reported
\* completed, or a write fails
ArtifactsWritten(ok) ==
    /\ jobs.pc = "writing"
    /\ jobs' = IF ok THEN settled(updateTrackedJob(jobs, "completed"))
               ELSE catchError(jobs, "error")
    /\ UNCHANGED jobsRest

\* the CancelJob handler (lines 1724-1762) for the job, which is in the
\* job store from its creation on
CancelJob ==
    /\ jobs.pc \notin {"off", "new"}
    /\ jobs.cancels < MaxCancels
    /\ LET signalled == [jobs EXCEPT
                           !.cancels = @ + 1,
                           !.controller = IF @ = "none" THEN @ ELSE "aborted"]
       IN  jobs' =
               IF jobs.status \in TerminalStatuses /\ jobs.controller = "none"
               THEN [signalled EXCEPT !.answers = Append(@, FALSE)]
               ELSE [signalled EXCEPT
                        !.status = "cancelled",
                        !.events = Append(@, "cancelled"),
                        !.answers = Append(@, TRUE),
                        !.cancelledAt = Len(jobs.events) + 1]
    /\ UNCHANGED jobsRest

NewJob ==
    [pc |-> "new", status |-> "none", controller |-> "none",
     appendMemories |-> FALSE, requestedOutputDir |-> FALSE,
     events |-> << >>, answers |-> << >>, cancelledAt |-> 0,
     progress |-> 0, cancels |-> 0]

JobSpecInit ==
    /\ EngineIdle
    /\ ClientIdle
    /\ PipelineOff
    /\ walk = NoWalk
    /\ sampler = NoSampler
    /\ compaction = NoCompaction
    /\ jobs = NewJob

JobNext ==
    \/ \E append, outputDir \in BOOLEAN :
           ExtractAndGenerate(append, outputDir)
    \/ PipelineLoaded
    \/ \E ok \in BOOLEAN : CacheReady(ok)
    \/ \E ok \in BOOLEAN : DirectoryReady(ok)
    \/ \E ok \in BOOLEAN : ExistingLoaded(ok)
    \/ GenerationProgress
    \/ GenerationReturns
    \/ \E error \in {"abort", "error"} : GenerationThrows(error)
    \/ \E ok \in BOOLEAN : ArtifactsWritten(ok)
    \/ CancelJob

JobSpec == JobSpecInit /\ [][JobNext]_vars

(* ------------------------------ resume --------------------------------- *)

RECURSIVE CallsStarted(_, _)
\* beginCall counts of the per-conversation calls of `stage` for the
\* conversations 1..k
CallsStarted(stage, k) ==
    IF k = 0 THEN 0
    ELSE llmLog.started[<<stage, k>>] + CallsStarted(stage, k - 1)

\* positions of the main coroutine after runWithConcurrency returned for
\* the persona stage
PersonaStageOver ==
    pc \in {"after_persona_observation", "memory_extract",
            "after_memory_extract", "persona_synthesis",
            "after_persona_synthesis", "memory_synthesis",
            "after_memory_synthesis", "final_stat", "final_manifest",
            "final_checkpoint", "save_manifest", "done"}

\* positions of the main coroutine after runWithConcurrency returned for
\* the memory stage
MemoryStageOver ==
    pc \in {"after_memory_extract", "persona_synthesis",
            "after_persona_synthesis", "memory_synthesis",
            "after_memory_synthesis", "final_stat", "final_manifest",
            "final_checkpoint", "save_manifest", "done"}

\* the run is a full generation that read a checkpoint written under its own
\* signature
ResumesOwnCheckpoint ==
    /\ pc # "idle"
    /\ ~request.force
    /\ ~request.append
    /\ loaded.state = "ok"
    /\ loaded.signature = resumeCheckpointSignature(request)

\* C1: a full run that resumes a checkpoint written with identical
\* parameters, holding N observations and M processed files of the selected
\* packets, starts one preflight call, no call for a conversation that has
\* its entry in the checkpoint, exactly |persona packets| - N persona
\* calls once the persona stage is over and exactly |memory packets| - M
\* memory calls once the memory stage is over.
C1_ResumeIssuesOnlyMissingCalls ==
    ResumesOwnCheckpoint =>
        LET N == Cardinality((DOMAIN loaded.obs) \cap Range(chunksForPersona))
            M == Cardinality(Range(loaded.processed) \cap Range(chunksForMemory))
        IN  /\ llmLog.started[<<"preflight", 0>>] = 1
            /\ \A c \in DOMAIN loaded.obs :
                  llmLog.started[<<"persona_observation", c>>] = 0
            /\ \A c \in Range(loaded.processed) :
                  llmLog.started[<<"memory_extract", c>>] = 0
            /\ PersonaStageOver =>
                  CallsStarted("persona_observation", NumConv)
                      = Len(chunksForPersona) - N
            /\ MemoryStageOver =>
                  CallsStarted("memory_extract", NumConv)
                      = Len(chunksForMemory) - M

\* a resumed full run has finished; the checkpoint it read held one of two
\* observations and one processed file, and one call of each stage was made
C1_Witness ==
    /\ ResumesOwnCheckpoint
    /\ pc = "done"
    /\ Cardinality((DOMAIN loaded.obs) \cap Range(chunksForPersona)) = 1
    /\ Cardinality(Range(loaded.processed) \cap Range(chunksForMemory)) = 1
    /\ Len(chunksForPersona) = 2
    /\ CallsStarted("persona_observation", NumConv) = 1
    /\ CallsStarted("memory_extract", NumConv) = 1

(* --------------------------- checkpoint content ------------------------ *)

\* the checkpoint file as a reader finds it: a missing or truncated file
\* holds no entry
OnDisk == IF disk.ckpt.state = "ok" THEN disk.ckpt ELSE AbsentFile

\* the file the run read at its start, likewise
Loaded == IF loaded.state = "ok" THEN loaded ELSE AbsentFile

\* C2: once the run is cancelled, every entry of the checkpoint file that
\* the file read at the start of the run did not hold already (an
\* observation, a candidate list, a processed-file mark) belongs to a
\* conversation whose call of this run answered with JSON, and is the
\* payload parsed from that answer; there is no entry for a call that is in
\* flight, was aborted or failed.
C2_CancelledCheckpointHoldsOnlySuccessfulEntries ==
    aborted =>
        \A c \in Conv :
            /\ (c \in DOMAIN OnDisk.obs
                    /\ ~(c \in DOMAIN Loaded.obs
                            /\ Loaded.obs[c] = OnDisk.obs[c]))
                  => /\ llmResponse[<<"persona_observation", c>>] = "json"
                     /\ OnDisk.obs[c] = "full"
            /\ (c \in DOMAIN OnDisk.cands
                    /\ ~(c \in DOMAIN Loaded.cands
                            /\ Loaded.cands[c] = OnDisk.cands[c]))
                  => /\ llmResponse[<<"memory_extract", c>>] = "json"
                     /\ OnDisk.cands[c] = << c >>
            /\ (c \in Range(OnDisk.processed)
                    /\ c \notin Range(Loaded.processed)
                    /\ c \notin DOMAIN NonEmptyCands(Loaded.cands))
                  => llmResponse[<<"memory_extract", c>>] = "json"

\* C3: a run that reads a checkpoint stored under another signature starts
\* from an empty checkpoint: no stored observation, candidate list or
\* processed mark of a selected packet is taken over, so that every selected
\* persona packet and every selected memory packet is pending.
C3_SignatureMismatchStartsFromEmpty ==
    (/\ pc = "preflight"
     /\ loaded.state = "ok"
     /\ loaded.signature # 0
     /\ loaded.signature # resumeCheckpointSignature(request))
        => /\ \A c \in Range(chunksForMemory) :
                 /\ c \notin DOMAIN memoryCandidatesBySourceFile
                 /\ c \notin processedMemoryFileSet
           /\ memoryChunksPending = chunksForMemory
           /\ ~request.append =>
                 /\ \A c \in Range(chunksForPersona) :
                       c \notin DOMAIN personaObservationByConversation
                 /\ personaChunksPending = chunksForPersona

\* C4: a per-conversation call is counted as completed only if its answer
\* parsed as JSON and the checkpoint file holds the conversation's entry
\* (unless a later write truncated the file); after an answer from which no
\* JSON parses, no file written by the run holds an entry for the
\* conversation.
C4_CompletedOnlyAfterJsonAndFlush ==
    \A c \in Conv :
        /\ llmLog.completed[<<"persona_observation", c>>] > 0
              => /\ llmResponse[<<"persona_observation", c>>] = "json"
                 /\ disk.ckpt.state = "partial" \/ c \in DOMAIN OnDisk.obs
        /\ llmLog.completed[<<"memory_extract", c>>] > 0
              => /\ llmResponse[<<"memory_extract", c>>] = "json"
                 /\ disk.ckpt.state = "partial"
                        \/ c \in Range(OnDisk.processed)
        /\ llmResponse[<<"persona_observation", c>>] = "nojson"
              => disk.ckpt = loaded \/ c \notin DOMAIN OnDisk.obs
        /\ llmResponse[<<"memory_extract", c>>] = "nojson"
              => \/ disk.ckpt = loaded
                 \/ /\ c \notin DOMAIN OnDisk.cands
                    /\ c \notin Range(OnDisk.processed)

(* ------------------------------ worker pool ---------------------------- *)

\* runners whose LLM call is in flight
CallsInFlight == {w \in Conv : runners[w].pc = "call"}

\* runners that hold a claimed index: in their call or in the writes that
\* follow it
RunnersAtWork ==
    {w \in Conv : runners[w].pc \in {"call", "manifest_write",
                                      "checkpoint_write"}}

C6_CallsInFlightBounded ==
    /\ Cardinality(CallsInFlight)
          <= (IF request.maxParallelCalls < 1 THEN 1
              ELSE IF request.maxParallelCalls > 16 THEN 16
              ELSE request.maxParallelCalls)
    /\ pc \in {"preflight", "persona_synthesis", "memory_synthesis"} =>
          /\ CallsInFlight = {}
          /\ \A l \in Labels :
                (llmLog.started[l] - llmLog.completed[l] - llmLog.failed[l] > 0)
                    => l = <<pc, 0>>
          /\ llmLog.started[<<pc, 0>>] = 1

\* maxParallelCalls is 0, so P is 1: two conversations are pending, one call
\* is in flight and the other conversation waits for the runner
C6_Witness ==
    /\ request.maxParallelCalls = 0
    /\ pc = "persona_observation"
    /\ Len(personaChunksPending) = 2
    /\ Cardinality(CallsInFlight) = 1
    /\ cursor = 1

(* --------------------------- synthesis inputs -------------------------- *)

\* index of conversation c in the list of selected packets
PacketIndex(chunks, c) == CHOOSE i \in DOMAIN chunks : chunks[i] = c

\* positions of the main coroutine at which the input of persona synthesis
\* has been collected
ObservationsCollected ==
    pc \in {"memory_extract", "after_memory_extract", "persona_synthesis",
            "after_persona_synthesis", "memory_synthesis",
            "after_memory_synthesis", "final_stat", "final_manifest",
            "final_checkpoint", "save_manifest", "done"}

\* positions of the main coroutine at which the input of memory synthesis
\* has been collected
CandidatesCollected ==
    pc \in {"persona_synthesis", "after_persona_synthesis",
            "memory_synthesis", "after_memory_synthesis", "final_stat",
            "final_manifest", "final_checkpoint", "save_manifest", "done"}

\* C7: the observations given to persona synthesis are the non-empty
\* observations of the selected persona packets, one per packet and in
\* packet order, and the candidates given to memory synthesis are the
\* candidates of the selected memory packets in packet order, whatever the
\* order in which the calls returned and whether an entry was loaded from
\* the checkpoint or produced in this run.
C7_SynthesisInputsInPacketOrder ==
    /\ \A i, j \in DOMAIN personaObservations :
          i < j => PacketIndex(chunksForPersona,
                                personaObservations[i].conversation)
                       < PacketIndex(chunksForPersona,
                                     personaObservations[j].conversation)
    /\ \A i, j \in DOMAIN memoryCandidates :
          i < j => PacketIndex(chunksForMemory, memoryCandidates[i])
                       < PacketIndex(chunksForMemory, memoryCandidates[j])
    /\ (ObservationsCollected /\ ~request.append) =>
          /\ \A i \in DOMAIN personaObservations :
                LET c == personaObservations[i].conversation IN
                /\ c \in DOMAIN personaObservationByConversation
                /\ personaObservations[i].observation
                      = personaObservationByConversation[c]
          /\ \A c \in Range(chunksForPersona) :
                (c \in DOMAIN personaObservationByConversation
                    /\ personaObservationByConversation[c] # "empty")
                  => \E i \in DOMAIN personaObservations :
                        personaObservations[i].conversation = c
    /\ CandidatesCollected =>
          \A c \in Range(chunksForMemory) :
              c \in DOMAIN memoryCandidatesBySourceFile =>
                  \A k \in Range(memoryCandidatesBySourceFile[c]) :
                      k \in Range(memoryCandidates)

\* both synthesis inputs hold two entries; the first observation was
\* produced in this run and the second one, later in packet order, was
\* loaded from the checkpoint
C7_Witness ==
    /\ CandidatesCollected
    /\ Len(personaObservations) = 2
    /\ Len(memoryCandidates) = 2
    /\ personaObservations[2].conversation \in DOMAIN Loaded.obs
    /\ llmResponse[<<"persona_observation",
                     personaObservations[1].conversation>>] = "json"

(* ------------------------------- skipping ------------------------------ *)

\* C8: on resume the memory extraction of a selected file is skipped if and
\* only if the checkpoint lists the file in processedMemoryFiles and holds
\* candidates for it.
C8_MemorySkippedIffProcessedAndCandidates ==
    (pc # "idle" /\ ~request.force) =>
        LET checkpoint ==
                readResumeCheckpoint(loaded, resumeCheckpointSignature(request))
        IN  \A c \in Range(chunksForMemory) :
                (c \notin Range(memoryChunksPending))
                    <=> (/\ c \in Range(checkpoint.processed)
                         /\ c \in DOMAIN checkpoint.cands)

\* C9: on resume the persona call of a selected conversation is skipped if
\* and only if the checkpoint holds an observation for it that is not
\* empty.
C9_PersonaSkippedIffObservationNonEmpty ==
    (pc # "idle" /\ ~request.force /\ ~request.append) =>
        LET checkpoint ==
                readResumeCheckpoint(loaded, resumeCheckpointSignature(request))
        IN  \A c \in Range(chunksForPersona) :
                (c \notin Range(personaChunksPending))
                    <=> (/\ c \in DOMAIN checkpoint.obs
                         /\ checkpoint.obs[c] # "empty")

(* --------------------------- per-call failures ------------------------- *)

SynthesisFailed ==
    \/ llmResponse[<<"persona_synthesis", 0>>] \in {"error", "nojson"}
    \/ llmResponse[<<"memory_synthesis", 0>>] \in {"error", "nojson"}

\* C11: when a synthesis call has failed the run is over, and unless a
\* checkpoint write of the run failed the checkpoint file holds every
\* observation and candidate list the run has recorded, and for every file
\* the run counts as processed its mark or its candidates; a run that is
\* not forced starts no per-conversation call for a conversation whose
\* observation, candidates or mark are in the file it read, whatever its
\* parameters.
C11_SynthesisFailureKeepsCheckpoint ==
    /\ SynthesisFailed => pc \in {"failed", "idle"}
    /\ (SynthesisFailed /\ ~checkpointWriteQueue.rejected) =>
          /\ \A c \in DOMAIN personaObservationByConversation :
                /\ c \in DOMAIN OnDisk.obs
                /\ OnDisk.obs[c] = personaObservationByConversation[c]
          /\ \A c \in DOMAIN memoryCandidatesBySourceFile :
                /\ c \in DOMAIN OnDisk.cands
                /\ OnDisk.cands[c] = memoryCandidatesBySourceFile[c]
          /\ \A c \in processedMemoryFileSet :
                \/ c \in Range(OnDisk.processed)
                \/ c \in DOMAIN NonEmptyCands(OnDisk.cands)
    /\ (pc # "idle" /\ ~request.force) =>
          \A c \in Conv :
              /\ c \in DOMAIN Loaded.obs =>
                    llmLog.started[<<"persona_observation", c>>] = 0
              /\ (c \in DOMAIN NonEmptyCands(Loaded.cands)
                      \/ c \in Range(Loaded.processed)) =>
                    llmLog.started[<<"memory_extract", c>>] = 0

\* memory synthesis failed after both conversations were observed and
\* extracted in this run; the file holds the two observations and the two
\* candidate lists
C11_Witness ==
    /\ pc = "failed"
    /\ llmResponse[<<"memory_synthesis", 0>>] = "error"
    /\ CallsStarted("persona_observation", NumConv) = 2
    /\ CallsStarted("memory_extract", NumConv) = 2
    /\ DOMAIN OnDisk.obs = Conv
    /\ DOMAIN NonEmptyCands(OnDisk.cands) = Conv

\* every selected conversation had its persona-observation call in this
\* run and every one of these calls ended with an error
AllObservationsFailed ==
    /\ pc # "idle"
    /\ ~request.append
    /\ chunksForPersona # << >>
    /\ \A i \in DOMAIN chunksForPersona :
          llmResponse[<<"persona_observation", chunksForPersona[i]>>] = "error"

PreflightFailed ==
    /\ pc # "idle"
    /\ llmResponse[<<"preflight", 0>>] \in {"error", "empty"}

\* C13: when the preflight call has failed the run has ended with the
\* preflight failure, no per-conversation call and no synthesis call has
\* been started, no checkpoint write has been requested, and the checkpoint
\* file is the file the run found when it started.
C13_PreflightFailureIsFatalAndWritesNothing ==
    PreflightFailed =>
        /\ pc = "failed"
        /\ failure.kind = "preflight"
        /\ llmLog.failed[<<"preflight", 0>>] = 1
        /\ \A c \in Conv :
              /\ llmLog.started[<<"persona_observation", c>>] = 0
              /\ llmLog.started[<<"memory_extract", c>>] = 0
        /\ llmLog.started[<<"persona_synthesis", 0>>] = 0
        /\ llmLog.started[<<"memory_synthesis", 0>>] = 0
        /\ checkpointWriteQueue = EmptyQueue
        /\ disk.ckpt = loaded

\* the preflight of a second run failed while the checkpoint file held an
\* observation of the first run; the file still holds it
C13_Witness ==
    /\ PreflightFailed
    /\ runs = 2
    /\ pc = "failed"
    /\ disk.ckpt.state = "ok"
    /\ DOMAIN disk.ckpt.obs # {}
    /\ personaChunksPending # << >>

(* ------------------------------ disk errors ---------------------------- *)

C15_NoHttpAttemptAfterCancel ==
    [][signal => \A k \in Call : calls'[k].requests = calls[k].requests]_vars

\* the signal was aborted while call 1 slept before its second attempt and
\* before call 2 was made; both have ended with the abort error, call 1
\* after one request and call 2 without any
C15_Witness ==
    /\ signal
    /\ calls[1].pc = "thrown"
    /\ calls[1].error = AbortError
    /\ calls[1].attempt = 2
    /\ calls[1].requests = 1
    /\ calls[2].pc = "thrown"
    /\ calls[2].error = AbortError
    /\ calls[2].requests = 0

\* C16: when the signal is aborted a call that sleeps between two attempts
\* is woken like a call whose request is in flight: no call is left in its
\* back-off sleep once the signal is aborted.
C16_BackoffSleepEndsAtCancel ==
    signal => \A k \in Call : calls[k].pc # "backoff"

(* ---------------------------- LLM client: retry ------------------------ *)

\* C18: a call sends at most six HTTP requests; it sends a further request
\* only after its back-off sleep, which it enters only with an error whose
\* message holds a retry marker and with attempts left; an attempt that
\* ends with an error holding no marker ends the call with that error.
C18_AtMostSixAttemptsRetryOnlyRetryable ==
    [][\A k \in Call :
          /\ calls'[k].requests <= 6
          /\ (calls[k].requests > 0 /\ calls'[k].requests > calls[k].requests)
                => /\ calls[k].pc = "backoff"
                   /\ calls[k].error.text \cap RETRY_MARKERS # {}
                   /\ calls'[k].requests = calls[k].requests + 1
          /\ (calls[k].pc = "fetch" /\ calls'[k].pc = "backoff")
                => /\ calls'[k].error.text \cap RETRY_MARKERS # {}
                   /\ calls[k].attempt < 6
          /\ (calls[k].pc = "fetch" /\ calls'[k].pc \in {"backoff", "thrown"}
                  /\ calls'[k].error.text \cap RETRY_MARKERS = {})
                => calls'[k].pc = "thrown"]_vars

\* call 1 has used its six attempts on retryable errors and has ended with
\* the last of them; call 2 has ended at its first attempt with an error
\* that is not retryable
C18_Witness ==
    /\ calls[1].pc = "thrown"
    /\ calls[1].requests = 6
    /\ calls[1].error.text \cap RETRY_MARKERS # {}
    /\ calls[1].error.name = "Error"
    /\ calls[2].pc = "thrown"
    /\ calls[2].requests = 1
    /\ calls[2].error.text \cap RETRY_MARKERS = {}
    /\ calls[2].error.name = "Error"

\* C19: an attempt that ends with the per-call timeout is retried after a
\* back-off as long as the call has attempts left: no call ends with the
\* timeout error before its last attempt.
C19_TimeoutIsRetried ==
    \A k \in Call :
        (calls[k].pc = "thrown" /\ calls[k].error = TimeoutError)
            => calls[k].attempt = 6

(* ------------------------------ cancellation --------------------------- *)

\* C17: a run in which a call ended with the abort error ends as cancelled,
\* and no call that ended with the abort error is counted as failed.
C17_CancelledCallsAreNotFailedCalls ==
    \A l \in Labels :
        (pc # "idle" /\ llmResponse[l] = "abort") =>
            /\ pc \in Terminal => pc = "cancelled"
            /\ llmLog.failed[l] = 0

(* ------------------------------ append mode ---------------------------- *)

\* C20: a run in append-memories mode starts no persona-observation call
\* and no persona-synthesis call, and gives persona synthesis no input,
\* whatever the checkpoint it read holds and whichever packets it selected.
C20_AppendModeIssuesNoPersonaCall ==
    (pc # "idle" /\ request.append) =>
        /\ \A c \in Conv : llmLog.started[<<"persona_observation", c>>] = 0
        /\ llmLog.started[<<"persona_synthesis", 0>>] = 0
        /\ personaChunksPending = << >>
        /\ personaObservations = << >>

\* an append-memories run that selected a packet without observation in
\* the checkpoint it read, and extracted memories from it, has ended well
C20_Witness ==
    /\ request.append
    /\ pc = "done"
    /\ \E i \in DOMAIN chunksForPersona :
          chunksForPersona[i] \notin DOMAIN personaObservationByConversation
    /\ \E c \in Conv : llmLog.completed[<<"memory_extract", c>>] = 1
    /\ llmLog.completed[<<"memory_synthesis", 0>>] = 1

\* C21: in an append-memories run the files left out of the memory stage
\* are the selected files with an entry in scannedFiles and no others:
\* every selected file without an entry is pending, has its
\* memory-extraction call once the stage has returned, and a file with an
\* entry has none.
C21_AppendSkipsExactlyScannedFiles ==
    (pc # "idle" /\ request.append /\ ~request.force) =>
        /\ memoryChunksPending = chunksForMemory
        /\ \A c \in Range(chunksForPersona) \ Range(chunksForMemory) :
              llmLog.started[<<"memory_extract", c>>] = 0
        /\ MemoryStageOver =>
              \A c \in Range(chunksForMemory) :
                  llmLog.started[<<"memory_extract", c>>] = 1

(* ------------------------- extraction cache: reuse --------------------- *)

\* C22: an ensure() for a fingerprint and a model for which an earlier
\* ensure() has returned does not extract and leaves the model directory
\* as it found it, and when it has returned it reports reusedExtraction
\* with no conversation extracted and the files it found.
C22_SecondEnsureReusesExtraction ==
    cache.priorCompleted =>
        /\ cache.pc # "extracting"
        /\ cache.dirs[CacheKey(cache)] = cache.filesBefore
        /\ cache.result.status # "failed"
        /\ cache.result.status = "returned" =>
              /\ cache.result.reused
              /\ cache.result.extracted = 0
              /\ cache.result.files = cache.filesBefore

\* a second ensure() for a model with two conversations has returned
C22_Witness ==
    /\ cache.priorCompleted
    /\ cache.result.status = "returned"
    /\ cache.result.reused
    /\ Cardinality(cache.result.files) = 2

\* C23: an ensure() reports a reused extraction only when the model
\* directory holds the complete extraction and the manifest had an entry
\* for the model: files left by an extraction that did not reach the
\* manifest are not returned as a reused extraction.
C23_PartialExtractionTreatedAsAbsent ==
    (cache.result.status = "returned" /\ cache.result.reused) =>
        /\ cache.result.files =
              CompleteExtraction(cache.source, cache.model)
        /\ cache.priorCompleted


(* ------------------------- JSON array streamer: claims ----------------- *)

\* the text streamed so far is a whole well-formed array of objects: only
\* white space of the input is left unread
WholeArrayStreamed ==
    /\ streamer.input.kind = "array_of_objects"
    /\ \A i \in (streamer.pos + 1)..Len(streamer.input.text) :
           isWhitespace(streamer.input.text[i])

\* C24: for a well-formed JSON array of N objects the streamer yields
\* exactly N objects, in array order, each equal to the corresponding
\* element, however the input is split into chunks: the objects yielded
\* so far are always the first elements of the array, and once the whole
\* array has been streamed the streamer ends normally with all of them.
C24_YieldsEveryObjectInOrder ==
    (streamer.pc # "off" /\ streamer.input.kind = "array_of_objects") =>
        /\ Len(streamer.yielded) <= Len(streamer.input.elements)
        /\ streamer.yielded =
               SubSeq(streamer.input.elements, 1, Len(streamer.yielded))
        /\ (streamer.pc # "reading" /\ WholeArrayStreamed) =>
               /\ streamer.pc = "ended"
               /\ streamer.yielded = streamer.input.elements

\* two different objects have been yielded from an array whose chunks
\* ended inside a string, after a backslash and inside a nested value
C24_Witness ==
    /\ streamer.pc = "ended"
    /\ Len(streamer.yielded) = 2
    /\ streamer.yielded = streamer.input.elements
    /\ streamer.yielded[1] # streamer.yielded[2]
    /\ streamer.cutInString
    /\ streamer.cutEscaped
    /\ streamer.cutNested

\* C25: the streamer ends with an error, never normally, whenever the
\* input is not a JSON array, has a top-level element that is no object,
\* or ends in the middle of an object or before the closing bracket.
C25_MalformedInputEndsWithError ==
    (streamer.pc \notin {"off", "reading"}
        /\ \/ streamer.input.kind = "not_an_array"
           \/ streamer.input.kind = "non_object_element"
           \/ ~WholeArrayStreamed) =>
        /\ streamer.pc = "failed"
        /\ streamer.scanner.error # "none"

\* an array whose second element is an array has failed after its first
\* element, an object, was yielded
C25_Witness ==
    /\ streamer.pc = "failed"
    /\ streamer.input.kind = "non_object_element"
    /\ Len(streamer.yielded) = 1
    /\ streamer.scanner.error = "Top-level array item is not an object"

\* C26: after each chunk the buffer holds only the text of the object
\* being captured, from its first character and up to the last character
\* read, or nothing at all; no text of a yielded object stays in it: for
\* an array of objects the buffer is the beginning of the element that
\* comes after the yielded ones.
C26_BufferHoldsOnlyCurrentObject ==
    streamer.pc = "reading" =>
        LET sc == streamer.scanner
            size == Len(sc.buffer)
        IN  IF sc.capturing
            THEN /\ sc.tokenStart = 0
                 /\ sc.index = size
                 /\ size > 0
                 /\ sc.buffer[1] \in {"{", "["}
                 /\ sc.buffer = SubSeq(streamer.input.text,
                                       streamer.pos - size + 1, streamer.pos)
                 /\ streamer.input.kind = "array_of_objects" =>
                        /\ Len(streamer.yielded) < Len(streamer.input.elements)
                        /\ LET element ==
                                   streamer.input.elements[
                                       Len(streamer.yielded) + 1]
                           IN  /\ size < Len(element)
                               /\ sc.buffer = SubSeq(element, 1, size)
            ELSE /\ sc.buffer = << >>
                 /\ sc.index = 0

\* one chunk has held the end of the first object, which was yielded, the
\* comma and the beginning of the second object, which is in the buffer
C26_Witness ==
    /\ streamer.pc = "reading"
    /\ streamer.input.kind = "array_of_objects"
    /\ Len(streamer.yielded) = 1
    /\ streamer.scanner.capturing
    /\ Len(streamer.scanner.buffer) > 1
    /\ streamer.chunk > Len(streamer.scanner.buffer) + 1
    /\ streamer.chunk < streamer.pos

(* ------------------------------ ZIP input: claims ---------------------- *)

\* C27: the archive handle is closed on every path: once the promise is
\* rejected (no conversations.json, an archive error, a failure to open
\* the entry), and once the entry's stream has ended, failed or been
\* closed after the consumer destroyed it, the handle is not open.
C27_ArchiveClosedOnEveryPath ==
    archive.pc # "off" =>
        /\ archive.promise = "rejected" => archive.handle # "open"
        /\ archive.stream \in {"ended", "errored", "closed"} =>
               archive.handle = "closed"
        /\ archive.pc = "over" => archive.handle # "open"

\* the consumer destroyed the stream after reading a part of the entry,
\* and the archive is closed
C27_Witness ==
    /\ archive.pc = "over"
    /\ archive.path = "destroy"
    /\ archive.stream = "closed"
    /\ archive.reads > 0
    /\ archive.reads < MaxReads
    /\ archive.handle = "closed"

(* --------------------------- choosePrimaryModel: claims ---------------- *)

\* the code units of the characters of ModelNames
CodeUnit ==
    [ch \in Range(CollationOrder) |->
        CASE ch = "-" -> 45 [] ch = "." -> 46 [] ch = "1" -> 49
          [] ch = "4" -> 52 [] ch = "g" -> 103 [] ch = "i" -> 105
          [] ch = "m" -> 109 [] ch = "n" -> 110 [] ch = "o" -> 111
          [] ch = "p" -> 112 [] ch = "t" -> 116]

\* a is lexicographically greater than b
LexGreater(a, b) == compareFrom(CodeUnit, Spell(a), Spell(b), 1) > 0

\* the candidate with the highest count and, among those with the highest
\* count, the lexicographically greatest name
PrimaryOf(candidates, counts) ==
    CHOOSE r \in candidates :
        \A m \in candidates \ {r} :
            \/ countOf(counts, m) < countOf(counts, r)
            \/ countOf(counts, m) = countOf(counts, r) /\ LexGreater(r, m)

\* C30: choosePrimaryModel returns the candidate with the highest message
\* count and, among the candidates tied for it, the lexicographically
\* greatest one; the result depends on the set of candidates only, not on
\* the order in which they are given.
C30_PrimaryModelIsGreatest ==
    chooser.pc = "returned" =>
        /\ chooser.result \in Range(chooser.models)
        /\ \A m \in Range(chooser.models) \ {chooser.result} :
               \/ countOf(chooser.counts, m)
                      < countOf(chooser.counts, chooser.result)
               \/ /\ countOf(chooser.counts, m)
                         = countOf(chooser.counts, chooser.result)
                  /\ LexGreater(chooser.result, m)
        /\ chooser.result = PrimaryOf(Range(chooser.models), chooser.counts)

\* three candidates, the first one alone with fewer messages, the other
\* two tied: the one returned is not the last of the list
C30_Witness ==
    /\ chooser.pc = "returned"
    /\ Len(chooser.models) = 3
    /\ countOf(chooser.counts, chooser.models[1])
           < countOf(chooser.counts, chooser.models[2])
    /\ countOf(chooser.counts, chooser.models[2])
           = countOf(chooser.counts, chooser.models[3])
    /\ chooser.result = chooser.models[2]

(* ------------------------------ extraction: claims --------------------- *)

RECURSIVE FirstRecognised(_)
\* the detection of the first conversation whose format is not unknown,
\* unknown when there is none
FirstRecognised(conversations) ==
    IF conversations = << >> THEN "unknown"
    ELSE IF detectConversationFormat(Head(conversations)) # "unknown"
    THEN detectConversationFormat(Head(conversations))
    ELSE FirstRecognised(Tail(conversations))

\* C28: the format label reported for an input is the detection of its
\* first conversation whose format is not unknown: conversations of
\* another format later in the input do not change it, and it is unknown
\* only if no conversation is recognised.
C28_LabelIsFirstRecognisedFormat ==
    extraction.pc = "returned" =>
        extraction.format = FirstRecognised(extraction.input)

\* the paths of the output directory with the directory and the name of
\* `path`
SameName(files, path) ==
    {p \in DOMAIN files : p.dir = path.dir /\ p.name = path.name}

\* C29: conversations that map to the same output file name are written
\* to files of their own: every file has one writer, so no write
\* overwrites or appends to a file of this or an earlier extraction; each
\* conversation written has its own path; the files of one name carry
\* the suffixes 1 (none), 2, 3, ... without a gap.
C29_CollidingNamesGetSuffixes ==
    extraction.pc # "off" =>
        /\ \A p \in DOMAIN extraction.files : Len(extraction.files[p]) = 1
        /\ Len(extraction.emitted) = extraction.extracted
        /\ \A i, j \in DOMAIN extraction.emitted :
               i # j => extraction.emitted[i] # extraction.emitted[j]
        /\ \A i \in DOMAIN extraction.emitted :
               /\ extraction.emitted[i] \in DOMAIN extraction.files
               /\ extraction.files[extraction.emitted[i]][1] > 0
        /\ \A p \in DOMAIN extraction.files :
               {q.suffix : q \in SameName(extraction.files, p)}
                   = 1..Cardinality(SameName(extraction.files, p))

\* three conversations with different ids and models have been written
\* under one name, with no suffix and with the suffixes 2 and 3
C29_Witness ==
    /\ extraction.pc = "returned"
    /\ extraction.extracted = 3
    /\ extraction.input[1] # extraction.input[2]
    /\ extraction.input[2] # extraction.input[3]
    /\ extraction.input[1] # extraction.input[3]
    /\ \A i \in 1..3 :
           /\ extraction.emitted[i].suffix = i
           /\ extraction.emitted[i].name = extraction.emitted[1].name
           /\ extraction.emitted[i].dir = extraction.emitted[1].dir
           /\ extraction.files[extraction.emitted[i]] = <<i>>

(* --------------------------- current-path walk: claims ----------------- *)

\* C31: the walk from current_node along the parent links terminates
\* (it visits no node twice, so it makes at most NumNodes rounds), it
\* stops only at a missing node, at a missing parent or at a node seen
\* before, each round goes to the parent of the node before, and it
\* returns the wanted messages of the visited nodes in root-to-leaf
\* order: the message of a node comes after those of the nodes reached
\* from it.
C31_WalkTerminatesRootToLeaf ==
    walk.pc # "off" =>
        /\ Len(walk.visits) <= NumNodes
        /\ \A i, j \in DOMAIN walk.visits :
               i # j => walk.visits[i] # walk.visits[j]
        /\ walk.visits # << >> => walk.visits[1] = walk.current
        /\ \A i \in DOMAIN walk.visits :
               i > 1 => /\ walk.mapping[walk.visits[i - 1]].present
                        /\ walk.mapping[walk.visits[i - 1]].parent
                               = walk.visits[i]
        /\ walk.pc = "returned" =>
               /\ \/ walk.visits = << >> /\ walk.current = 0
                  \/ /\ walk.visits # << >>
                     /\ LET last == walk.mapping[walk.visits[Len(walk.visits)]]
                        IN  \/ ~last.present
                            \/ last.parent = 0
                            \/ last.parent \in Range(walk.visits)
               /\ Range(walk.result) =
                      {n \in Range(walk.visits) :
                           /\ walk.mapping[n].present
                           /\ walk.mapping[n].role \in WantedRoles}
               /\ \A i, j \in DOMAIN walk.result :
                      i < j =>
                          \E a, b \in DOMAIN walk.visits :
                              /\ walk.visits[a] = walk.result[i]
                              /\ walk.visits[b] = walk.result[j]
                              /\ b < a

\* a walk over three nodes whose parent links form a cycle has returned
\* the two wanted messages on it, the one of current_node last
C31_Witness ==
    /\ walk.pc = "returned"
    /\ Len(walk.visits) = 3
    /\ walk.mapping[walk.visits[3]].parent \in Range(walk.visits)
    /\ Len(walk.result) = 2
    /\ walk.result[2] = walk.current

(* ------------------------------ sampler: claims ------------------------ *)

\* C32: for a fixed seed and fixed scored files each of the three
\* policies returns the same ordered list in every process, and the list
\* holds no file twice: two processes that have selected with the same
\* request have the same result, without a repeated file, of the length
\* asked for, and for the policy top it is the beginning of the sorted
\* files.
C32_SelectionIsDeterministic ==
    (sampler.pc = "on"
        /\ sampler.runs[1].pc = "returned"
        /\ sampler.runs[2].pc = "returned") =>
        LET first == sampler.runs[1].result
            wanted == IF sampler.sampleLimit <= 0
                          \/ sampler.sampleLimit >= NumFiles
                      THEN NumFiles ELSE sampler.sampleLimit
        IN  /\ first = sampler.runs[2].result
            /\ Len(first) = wanted
            /\ Range(first) \subseteq FileNames
            /\ \A i, j \in DOMAIN first : i # j => first[i] # first[j]
            /\ sampler.mode = "top" =>
                   first = SubSeq(sortScored(sampler.scored), 1, wanted)

\* two processes have drawn two of three files at random by weight with
\* the derived seed, and not in the order of the scores
C32_Witness ==
    /\ sampler.pc = "on"
    /\ sampler.mode = "weighted-random"
    /\ sampler.requested[1] >= 0
    /\ sampler.sampleLimit = 2
    /\ sampler.runs[1].pc = "returned"
    /\ sampler.runs[2].pc = "returned"
    /\ sampler.runs[1].result = sampler.runs[2].result
    /\ sampler.runs[1].result # SubSeq(sortScored(sampler.scored), 1, 2)

\* C33: memory compaction is idempotent: compactMemories applied to its
\* own result returns that result, and so does compactMemoryCandidates.
C33_CompactionIsIdempotent ==
    (compaction.pc = "on" /\ compaction.stage = "again") =>
        /\ compaction.remerged = compaction.merged
        /\ compaction.reshaped = compaction.lorebook

\* the case-insensitive union of two key lists: the first occurrence of
\* every key, compared in lower case
C34_Union(first, second) == normalizeKeys(first \o second)

\* the same text modulo white space
C34_SameContent(first, second) ==
    trimText(collapseSpaces(first)) = trimText(collapseSpaces(second))

\* C34: when a memory of the card and a newly extracted candidate have
\* the same content modulo white space, the lorebook holds exactly one
\* entry for the two; its keys are the case-insensitive union of the two
\* key lists and its priority is the larger of the two priorities.
C34_DuplicateBecomesOneEntry ==
    (compaction.pc = "on" /\ compaction.stage = "shaped"
        /\ Len(compaction.existingMemories) = 1
        /\ Len(compaction.rows) = 1
        /\ compaction.maxMemories = 2
        /\ C34_SameContent(compaction.existingMemories[1].content,
                           compaction.rows[1].content)) =>
        /\ Len(compaction.lorebook) = 1
        /\ compaction.lorebook[1].keys =
               C34_Union(compaction.existingMemories[1].keys,
                         compaction.rows[1].keys)
        /\ compaction.lorebook[1].priority =
               Max(300, compaction.rows[1].priority)

\* the lorebook that compactMemoryCandidates returns without a cap
C35_Uncapped == compactMemoryCandidates(compaction.merged, 0)

\* C35: the lorebook holds at most maxMemories entries, and when there
\* are more compacted candidates no entry that was dropped has a higher
\* priority than an entry that was kept.
C35_CapKeepsHighestPriority ==
    (compaction.pc = "on" /\ compaction.stage = "shaped") =>
        /\ Len(compaction.lorebook) <= compaction.maxMemories
        /\ \A i \in DOMAIN C35_Uncapped :
               \A j \in DOMAIN compaction.lorebook :
                   C35_Uncapped[i].name
                           \notin {entry.name :
                                       entry \in Range(compaction.lorebook)}
                       => C35_Uncapped[i].priority
                              <= compaction.lorebook[j].priority

(* ---------------------------- checkpoint writes ------------------------ *)

\* every observation, candidate list and processed mark of the checkpoint
\* `earlier` is in the checkpoint `later`
C36_Covers(earlier, later) ==
    /\ \A c \in DOMAIN earlier.obs :
           c \in DOMAIN later.obs /\ later.obs[c] = earlier.obs[c]
    /\ \A c \in DOMAIN earlier.cands :
           c \in DOMAIN later.cands /\ later.cands[c] = earlier.cands[c]
    /\ Range(earlier.processed) \subseteq Range(later.processed)

\* the checkpoint as persistCheckpoint would build it now, without the
\* files whose worker has not requested its checkpoint write yet
C36_Requested ==
    LET waiting == {runners[w].chunk :
                        w \in {v \in Conv : runners[v].pc = "manifest_write"}}
    IN  [obs |-> personaObservationByConversation,
         cands |-> [c \in (DOMAIN memoryCandidatesBySourceFile) \ waiting |->
                       memoryCandidatesBySourceFile[c]],
         processed |-> Filter(chunksForMemory,
                              processedMemoryFileSet \ waiting)]

C37_ManifestEntryAfterCheckpointFlush ==
    [][\A f \in Conv :
           (/\ llmResponse[<<"memory_extract", f>>] \in {"json", "nojson"}
            /\ ~(disk.manifest.state = "ok" /\ f \in disk.manifest.scanned)
            /\ disk'.manifest.state = "ok"
            /\ f \in disk'.manifest.scanned)
               => /\ disk'.ckpt.state = "ok"
                  /\ f \in DOMAIN disk'.ckpt.cands]_vars

\* C38: when the engine has returned or thrown, also after a cancellation
\* with several workers active, none of the checkpoint and scan-manifest
\* writes it started is still in progress or waiting to be performed, and
\* no worker of the run is left that will request one.
C38_NoWriteOutlivesTheEngine ==
    pc \in Terminal =>
        /\ ~WritePending(checkpointWriteQueue)
        /\ ~WritePending(manifestWriteQueue)
        /\ \A w \in Conv :
               runners[w].pc \notin {"manifest_write", "checkpoint_write"}

\* C39: a failed checkpoint write affects only the call that requested it:
\* every checkpoint write requested in a run is performed, also when a
\* write requested before it has failed, so that no request leaves the
\* chain of writes without its write.
C39_LaterWritesArePerformed ==
    [][(/\ Len(checkpointWriteQueue'.entries)
               < Len(checkpointWriteQueue.entries)
        /\ runs' = runs
        /\ pc' # "idle")
           => (CheckpointWrite(TRUE) \/ CheckpointWrite(FALSE))]_vars

(* ------------------------------ job events ----------------------------- *)

\* C40: once a job event has reported a terminal status, no later event of
\* the job reports another status, and after a cancel request was answered
\* with cancelled=true no event reports the job as running or completed.
C40_TerminalStatusIsFinal ==
    jobs.pc # "off" =>
        /\ \A i, j \in DOMAIN jobs.events :
               (i < j /\ jobs.events[i] \in TerminalStatuses)
                   => jobs.events[j] = jobs.events[i]
        /\ jobs.cancelledAt > 0 =>
               \A j \in DOMAIN jobs.events :
                   j > jobs.cancelledAt
                       => jobs.events[j] \notin {"running", "completed"}

====
